---- MODULE Spec2Model ----
(***************************************************************************)
(* Model of nix-upload.py: the photo preparation pipeline                  *)
(* (get_image_files, image_resize_and_add_caption, _get_gps_coordinates,   *)
(* _get_location_name) and the part of main that consumes its result.      *)
(*                                                                         *)
(* Eleven specifications share the variables:                              *)
(*   Spec          - one run of main: get_image_files, the check of its    *)
(*                   result, and the cleanup when the process ends;        *)
(*   SpecWalk      - the directory walk of get_image_files on trees with   *)
(*                   markers and files of every kind of name;              *)
(*   SpecTransform - the resize arithmetic of                              *)
(*                   image_resize_and_add_caption on all sizes up to       *)
(*                   MaxDim;                                               *)
(*   SpecGeo       - _get_location_name on sample coordinates and every    *)
(*                   outcome of the geocoding collaborator;                *)
(*   SpecGps       - _get_gps_coordinates on sample metadata;              *)
(*   SpecColour    - the choice of the caption colours, for both caption   *)
(*                   positions;                                            *)
(*   SpecCaption   - one call of image_resize_and_add_caption on sample    *)
(*                   images, metadata and settings;                        *)
(*   SpecFont      - the choice of the caption font;                       *)
(*   SpecMain      - main from setup_webdriver on, with every outcome of   *)
(*                   each step;                                            *)
(*   SpecBatch     - the progress-monitoring loop of upload_batch, with a  *)
(*                   clock in seconds;                                     *)
(*   SpecUpload    - upload_photos: the batches passed to upload_batch.    *)
(***************************************************************************)
EXTENDS Integers, Sequences, FiniteSets, TLC

VARIABLES
    pc,               \* position of the run
    cfg,              \* the configuration values passed to get_image_files
    directory,        \* the photos directory: does it exist, the files in its tree
    env,              \* the environment: can the temporary directory be made
    image_files,      \* get_image_files: the candidate paths
    selected_images,  \* get_image_files: the selected paths
    i,                \* get_image_files: images processed so far
    final_images,     \* get_image_files: the accepted output paths
    progress,         \* the calls of display_progress_bar, in order
    temp_files,       \* the files in the temporary directory
    log,              \* history: what each processed image was and returned
    tr,               \* SpecTransform: sizes in, resize dimensions out
    geo,              \* SpecGeo: coordinates and collaborator outcome in, label out
    gp,               \* SpecGps: the metadata of an image in, coordinates out
    col,              \* SpecColour: an image and its sizes in, colours out
    cap,              \* SpecCaption: one image in, the result of processing it out
    fnt,              \* SpecFont: the font setting and the fonts at hand in, the font out
    mn,               \* SpecMain: the browser session of main
    ub,               \* SpecBatch: the progress-monitoring loop of upload_batch
    up                \* SpecUpload: the batches of upload_photos

vars == <<pc, cfg, directory, env, image_files, selected_images, i,
          final_images, progress, temp_files, log, tr, geo, gp, col, cap,
          fnt, mn, ub, up>>

\* Python's None where a string is expected (a path, a place label).
None == "<None>"

\* The variables of the component specifications while another one runs.
GpIdle == [state |-> "idle"]

ColIdle == [state |-> "idle"]

CapIdle == [state |-> "idle"]

\* The variables of the upload and of the font while they are not in use.
Unused == [state |-> "idle"]

---------------------------------------------------------------------------
(* Bounds of the model *)

MaxDim == 9
MaxFiles == 3
MaxImages == 5
MaxBatchSize == 3
MaxPhotos == 3
MaxMb == 1

---------------------------------------------------------------------------
(* Transformer: image_resize_and_add_caption, lines 357-367 *)

\* The comparison of line 360 turned around.
WidthBindsSwapped(img_width, img_height, target_width, target_height) ==
    img_width * target_height < img_height * target_width

\* `img_width / target_width > img_height / target_height` on positive
\* integers. The two double quotients compare as the exact fractions do for
\* all sizes far beyond the model's (checked by running the expression).
WidthBinds(img_width, img_height, target_width, target_height) ==
    img_width * target_height > img_height * target_width

\* The double quotient new_width / (img_width / img_height) falls just below
\* the exact quotient, itself an integer, for these <<img_width, img_height,
\* new_width>>: 9 / (9 / 7) is 6.999999999999999. No other triple of sizes
\* up to 12 does so, and new_height * (img_width / img_height) is never below
\* the exact product for sizes up to 12.
DoubleQuotientBelow(img_width, img_height, new_width) ==
    <<img_width, img_height, new_width>> \in {<<9, 7, 9>>}

\* round(new_width / aspect_ratio), halves up, in place of int(...).
IntDivAspectRounded(new_width, img_width, img_height) ==
    (2 * new_width * img_height + img_width) \div (2 * img_width)

\* int(new_width / aspect_ratio), aspect_ratio = img_width / img_height
IntDivAspect(new_width, img_width, img_height) ==
    IF DoubleQuotientBelow(img_width, img_height, new_width)
    THEN (new_width * img_height) \div img_width - 1
    ELSE (new_width * img_height) \div img_width

\* int(new_height * aspect_ratio)
IntMulAspect(new_height, img_width, img_height) ==
    (new_height * img_width) \div img_height

\* The width scaled from the target height whichever dimension binds.
NewWidthUnbound(img_width, img_height, target_width, target_height) ==
    IntMulAspect(target_height, img_width, img_height)

\* Lines 360-367: new_width.
new_width(img_width, img_height, target_width, target_height) ==
    IF WidthBinds(img_width, img_height, target_width, target_height)
    THEN target_width
    ELSE IntMulAspect(target_height, img_width, img_height)

\* Lines 360-367: new_height.
new_height(img_width, img_height, target_width, target_height) ==
    IF WidthBinds(img_width, img_height, target_width, target_height)
    THEN IntDivAspect(new_width(img_width, img_height, target_width, target_height),
                      img_width, img_height)
    ELSE target_height

Dims == 1..MaxDim

TrIdle == [state |-> "idle"]

InitTransform ==
    /\ pc = "transform"
    /\ tr \in [state : {"input"},
               img_width : Dims, img_height : Dims,
               target_width : Dims, target_height : Dims]

\* Lines 357-367 applied to the sizes drawn by InitTransform.
Transform ==
    /\ pc = "transform"
    /\ tr.state = "input"
    /\ tr' = [state |-> "resized",
              img_width |-> tr.img_width, img_height |-> tr.img_height,
              target_width |-> tr.target_width, target_height |-> tr.target_height,
              new_width |-> new_width(tr.img_width, tr.img_height,
                                      tr.target_width, tr.target_height),
              new_height |-> new_height(tr.img_width, tr.img_height,
                                        tr.target_width, tr.target_height)]
    /\ UNCHANGED <<pc, cfg, directory, env, image_files, selected_images, i,
                   final_images, progress, temp_files, log, geo, gp, col, cap,
                   fnt, mn, ub, up>>

---------------------------------------------------------------------------
(* MetadataResolver: _get_location_name, lines 300-346 *)

\* A coordinate is a double, in degrees. _convert_to_degrees builds it from
\* degrees, minutes and seconds, so the model holds it as a sign and a whole
\* number of arc seconds (1/3600 degree); the sign is kept apart because
\* Python has a negative zero, which prints as "-0.0000".
Coordinate(neg, arcsec) == [neg |-> neg, arcsec |-> arcsec]

\* The sample coordinates: 0, 1", 12.34 deg = 44424", 56.78 deg = 204408",
\* 40 deg 26' 46" = 145606", 79 deg 56' 55" = 287815", either sign.
Coordinates == {<<Coordinate(n1, a1), Coordinate(n2, a2)>> :
                   n1 \in BOOLEAN, a1 \in {0, 44424, 145606},
                   n2 \in BOOLEAN, a2 \in {1, 204408, 287815}}

Pad4(n) ==
    IF n < 10 THEN "000" \o ToString(n)
    ELSE IF n < 100 THEN "00" \o ToString(n)
    ELSE IF n < 1000 THEN "0" \o ToString(n)
    ELSE ToString(n)

\* f"{x:.4f}" for x = arcsec / 3600: the nearest multiple of 0.0001, which is
\* round(25 * arcsec / 9) ten-thousandths; 25 * arcsec / 9 is never halfway
\* between two integers, so no tie rule is involved.
Format4f(c) ==
    LET q == (50 * c.arcsec + 9) \div 18
    IN  (IF c.neg THEN "-" ELSE "") \o ToString(q \div 10000) \o "." \o Pad4(q % 10000)

\* The two coordinates in the other order.
CoordinateStringSwapped(coordinates) ==
    Format4f(coordinates[2]) \o ", " \o Format4f(coordinates[1])

\* lat, lon = coordinates; return f"{lat:.4f}, {lon:.4f}"
CoordinateString(coordinates) ==
    Format4f(coordinates[1]) \o ", " \o Format4f(coordinates[2])

\* Python truthiness of an optional string.
Truthy(s) == s # None /\ s # ""

\* a or b
Or(a, b) == IF Truthy(a) THEN a ELSE b

\* What the geocoding collaborator does when asked, one of:
\*   the geopy / requests imports fail, or Nominatim(...) raises;
\*   geolocator.reverse raises GeocoderTimedOut, GeocoderUnavailable,
\*     RequestException or some other Exception;
\*   reverse returns None;
\*   reverse returns a location: raw["address"] is absent (has_address FALSE)
\*     or holds the optional fields city, town, village; location.address is
\*     the full formatted address, held as its comma-delimited segments.
GeoFailures == {"ImportError", "ConstructorError", "GeocoderTimedOut",
                "GeocoderUnavailable", "RequestException", "OtherException"}

GeoRaises(kind) == [kind |-> kind]

GeoNoLocation == [kind |-> "NoLocation"]

GeoLocation(has_address, city, town, village, address) ==
    [kind |-> "Location", has_address |-> has_address,
     city |-> city, town |-> town, village |-> village, address |-> address]

GeoOutcomes ==
    {GeoRaises(k) : k \in GeoFailures} \cup {GeoNoLocation}
    \cup {GeoLocation(a, c, t, v, s) :
            a \in BOOLEAN, c \in {None, "Pittsburgh"}, t \in {None, "", "Smalltown"},
            v \in {None, "Hamlet"}, s \in {<<"5th Avenue", " Allegheny County">>, <<"">>}}

\* Exceptions raised before the inner try: lines 303-311.
RaisedOutsideInnerTry(outcome) == outcome.kind \in {"ImportError", "ConstructorError"}

\* The inner try's except clauses: lines 323, 328, 333.
InnerCaught == {"GeocoderTimedOut", "GeocoderUnavailable", "RequestException"}

\* The town asked for before the city.
LocationLabelTownFirst(outcome) ==
    IF outcome.kind = "Location" /\ outcome.has_address
    THEN LET city == Or(Or(outcome.town, outcome.city), outcome.village)
         IN  IF Truthy(city) THEN city ELSE outcome.address[1]
    ELSE None

\* Lines 316-322: the label of a returned location, None when the code falls
\* out of the if.
LocationLabel(outcome) ==
    IF outcome.kind = "Location" /\ outcome.has_address
    THEN LET city == Or(Or(outcome.city, outcome.town), outcome.village)
         IN  IF Truthy(city) THEN city ELSE outcome.address[1]
    ELSE None

\* An outer handler that gives up the location.
OuterHandlerNone(coordinates) == None

\* The handler of the outer `except Exception`: lines 339-343.
OuterHandler(coordinates) == CoordinateString(coordinates)

\* The three inner handlers, alike: lines 323-337.
InnerHandler(coordinates) == CoordinateString(coordinates)

\* _get_location_name: the value returned, and whether an exception leaves
\* the function.
GetLocationName(coordinates, outcome) ==
    IF RaisedOutsideInnerTry(outcome)
    THEN [raised |-> FALSE, value |-> OuterHandler(coordinates)]
    ELSE IF outcome.kind \in InnerCaught
    THEN [raised |-> FALSE, value |-> InnerHandler(coordinates)]
    ELSE IF outcome.kind \in GeoFailures
    THEN [raised |-> FALSE, value |-> OuterHandler(coordinates)]
    ELSE [raised |-> FALSE, value |-> LocationLabel(outcome)]

GeoIdle == [state |-> "idle"]

InitGeo ==
    /\ pc = "geocode"
    /\ geo \in [state : {"input"}, coordinates : Coordinates, outcome : GeoOutcomes]

\* One call of _get_location_name on the inputs drawn by InitGeo.
GetLocation ==
    /\ pc = "geocode"
    /\ geo.state = "input"
    /\ LET r == GetLocationName(geo.coordinates, geo.outcome)
       IN  geo' = [state |-> "resolved", coordinates |-> geo.coordinates,
                   outcome |-> geo.outcome, raised |-> r.raised,
                   location_text |-> r.value]
    /\ UNCHANGED <<pc, cfg, directory, env, image_files, selected_images, i,
                   final_images, progress, temp_files, log, tr, gp, col, cap,
                   fnt, mn, ub, up>>

---------------------------------------------------------------------------
(* _convert_to_degrees and _get_gps_coordinates, lines 250-298 *)

\* What img._getexif() gives for one image (lines 260 and 405):
\*   read   "raises" (the call raises, as for an image format without the
\*          method), "empty" (None or an empty dict) or "tags";
\*   date   tag 36867 (DateTimeOriginal): <<>> when absent, else <<string>>;
\*   gps    the GPSInfo tag: <<>> when absent, else <<g>>, g the values under
\*          GPSLatitude, GPSLatitudeRef, GPSLongitude and GPSLongitudeRef.
Exif(read, date, gps) == [read |-> read, date |-> date, gps |-> gps]

\* A coordinate is a sequence of integers, degrees, minutes and seconds (<<>>
\* when the key is absent); a reference is a string (None when absent).
GpsInfo(lat, lat_ref, lon, lon_ref) ==
    [lat |-> lat, lat_ref |-> lat_ref, lon |-> lon, lon_ref |-> lon_ref]

\* The four values initialised to the origin.
GpsInfoOrigin == GpsInfo(<<0, 0, 0>>, "N", <<0, 0, 0>>, "E")

\* Lines 265-268: the four values before the tags are read.
GpsInfoAbsent == GpsInfo(<<>>, None, <<>>, None)

\* value[2] of a sequence shorter than three raises IndexError.
ConvertRaises(value) == Len(value) < 3

\* d + (m / 60.0) + (s / 3600.0), in arc seconds.
ConvertToDegrees(value) ==
    Coordinate(FALSE, (3600 * value[1]) + (60 * value[2]) + value[3])

\* lat = -lat
Negate(c) == Coordinate(~c.neg, c.arcsec)

\* Lines 291-294: `if ref != positive_ref: x = -x`
Signed(c, ref, positive_ref) == IF ref # positive_ref THEN Negate(c) ELSE c

\* The whole function: <<>> for None, else <<lat, lon>>. Every exception
\* raised in the body is caught at line 296 and None is returned.
GetGpsCoordinates(exif) ==
    IF exif.read # "tags" THEN <<>>
    ELSE LET g == IF exif.gps = <<>> THEN GpsInfoAbsent ELSE exif.gps[1]
         IN  IF g.lat # <<>> /\ g.lon # <<>>
             THEN IF ConvertRaises(g.lat) \/ ConvertRaises(g.lon) THEN <<>>
                  ELSE <<Signed(ConvertToDegrees(g.lat), g.lat_ref, "N"),
                         Signed(ConvertToDegrees(g.lon), g.lon_ref, "E")>>
             ELSE <<>>

\* The metadata SpecGps reads: unreadable, empty, without GPSInfo, and every
\* combination of sample coordinates and references; "" stands for a
\* reference that is none of the four letters.
GpsExifs ==
    {Exif(r, <<>>, <<>>) : r \in {"raises", "empty", "tags"}}
    \cup {Exif("tags", <<>>, <<GpsInfo(lat, lat_ref, lon, lon_ref)>>) :
            lat \in {<<>>, <<40, 26, 46>>, <<0, 0, 0>>, <<40, 26>>},
            lat_ref \in {None, "N", "S", ""},
            lon \in {<<>>, <<79, 56, 55>>, <<12, 20, 24>>},
            lon_ref \in {None, "E", "W", ""}}

InitGps ==
    /\ pc = "gps"
    /\ gp \in [state : {"input"}, exif : GpsExifs]

\* One call of _get_gps_coordinates on the metadata drawn by InitGps.
GetGps ==
    /\ pc = "gps"
    /\ gp.state = "input"
    /\ gp' = [state |-> "read", exif |-> gp.exif,
              coordinates |-> GetGpsCoordinates(gp.exif)]
    /\ UNCHANGED <<pc, cfg, directory, env, image_files, selected_images, i,
                   final_images, progress, temp_files, log, tr, geo, col, cap,
                   fnt, mn, ub, up>>

---------------------------------------------------------------------------
(* image_resize_and_add_caption, lines 377-450: the caption *)

Black == <<0, 0, 0>>

White == <<255, 255, 255>>

\* Line 379: sample_height = int(new_height * 0.1). The double product
\* truncates to the integer quotient for every height up to 100000 (checked
\* by running the expression).
SampleHeight(nh) == nh \div 10

Box(left, upper, right, lower) ==
    [left |-> left, upper |-> upper, right |-> right, lower |-> lower]

\* The band next to the caption: the top one for a caption at the top.
SampleBoxAtCaption(nw, nh, caption_position) ==
    IF caption_position = "bottom" THEN Box(0, nh - SampleHeight(nh), nw, nh)
    ELSE Box(0, 0, nw, SampleHeight(nh))

\* Line 380: the box given to crop, (0, new_height - sample_height,
\* new_width, new_height), whatever the caption position.
SampleBox(nw, nh, caption_position) == Box(0, nh - SampleHeight(nh), nw, nh)

\* The pixels of the resized image: one colour in the rows above the middle
\* (top), one in the rows from the middle down (bottom). void is the pixel
\* that resize((1, 1)) gives for a box without rows.
Pixels(top, bottom, void) == [top |-> top, bottom |-> bottom, void |-> void]

\* Line 381: sample_region.resize((1, 1)).getpixel((0, 0)), as integers: the
\* colour of a box that lies in one band.
AvgColor(pixels, nh, box) ==
    IF box.lower = box.upper THEN pixels.void
    ELSE IF box.upper >= nh \div 2 THEN pixels.bottom
    ELSE IF box.lower <= nh \div 2 THEN pixels.top
    ELSE [k \in 1..3 |-> (pixels.top[k] + pixels.bottom[k]) \div 2]

\* 1000 * (0.299 * R + 0.587 * G + 0.114 * B)
Weighted(c) == (299 * c[1]) + (587 * c[2]) + (114 * c[3])

\* The colours for which the double luminance is above 0.5 while the exact
\* one is 0.5: (0.299 * 218 + 0.587 * 58 + 0.114 * 248) / 255 is
\* 0.5000000000000001. For every other colour of 0..255 the double comparison
\* is the exact one (checked by running the expression on all of them).
DoubleLuminanceAbove == {<<218, 58, 248>>}

\* The comparison of line 386 with >= in place of >.
LuminanceAboveHalfInclusive(c) == Weighted(c) >= 127500

\* Lines 385-386: luminance > 0.5
LuminanceAboveHalf(c) == Weighted(c) > 127500 \/ c \in DoubleLuminanceAbove

\* Line 386: text_color
TextColor(avg_color) == IF LuminanceAboveHalf(avg_color) THEN Black ELSE White

\* Line 439: outline_color
OutlineColor(text_color) == IF text_color = White THEN Black ELSE White

\* Lines 378-386 and 438-440 on one image and one caption position.
Colouring(pixels, nw, nh, caption_position) ==
    LET box == SampleBox(nw, nh, caption_position)
        avg_color == AvgColor(pixels, nh, box)
    IN  [box |-> box, avg_color |-> avg_color,
         text_color |-> TextColor(avg_color),
         outline_color |-> OutlineColor(TextColor(avg_color))]

\* The colours SpecColour samples: black, white, two greys around the
\* threshold, the colours next to the threshold on either side
\* (Weighted = 127499, 127501) and colours exactly on it (Weighted = 127500).
Colours == {Black, White, <<127, 127, 127>>, <<128, 128, 128>>,
            <<2, 209, 37>>, <<2, 189, 140>>,
            <<1, 173, 225>>, <<0, 204, 68>>, <<218, 58, 248>>}

CaptionPositions == {"top", "bottom"}

InitColour ==
    /\ pc = "colour"
    /\ col \in [state : {"input"},
                pixels : {Pixels(t, b, v) : t \in Colours, b \in Colours, v \in {Black, White}},
                new_width : {4}, new_height : {3, 10, 25}]

\* The colour choice of lines 378-386 and 438-440 on the image drawn by
\* InitColour, once for each caption position.
Shade ==
    /\ pc = "colour"
    /\ col.state = "input"
    /\ col' = [state |-> "chosen", pixels |-> col.pixels,
               new_width |-> col.new_width, new_height |-> col.new_height,
               run |-> [p \in CaptionPositions |->
                          Colouring(col.pixels, col.new_width, col.new_height, p)]]
    /\ UNCHANGED <<pc, cfg, directory, env, image_files, selected_images, i,
                   final_images, progress, temp_files, log, tr, geo, gp, cap,
                   fnt, mn, ub, up>>

\* A DateTimeOriginal string: its fields as numbers and the separator of the
\* date fields; the time fields are separated by ":" and follow one space.
DateString(date_sep, year, month, day, hour, minute, second) ==
    [date_sep |-> date_sep, year |-> year, month |-> month, day |-> day,
     hour |-> hour, minute |-> minute, second |-> second]

\* A datetime, to the second.
Instant(year, month, day, hour, minute, second) ==
    [year |-> year, month |-> month, day |-> day,
     hour |-> hour, minute |-> minute, second |-> second]

LeapYear(y) == (y % 4 = 0 /\ y % 100 # 0) \/ y % 400 = 0

DaysInMonth(y, m) ==
    IF m = 2 THEN (IF LeapYear(y) THEN 29 ELSE 28)
    ELSE IF m \in {4, 6, 9, 11} THEN 30 ELSE 31

\* datetime.strptime(date_str, "%Y:%m:%d %H:%M:%S"): <<>> when it raises
\* ValueError, else <<the datetime>>.
Strptime(date_str) ==
    IF /\ date_str.date_sep = ":"
       /\ date_str.year \in 1..9999
       /\ date_str.month \in 1..12
       /\ date_str.day \in 1..DaysInMonth(date_str.year, date_str.month)
       /\ date_str.hour \in 0..23
       /\ date_str.minute \in 0..59
       /\ date_str.second \in 0..59
    THEN <<Instant(date_str.year, date_str.month, date_str.day,
                   date_str.hour, date_str.minute, date_str.second)>>
    ELSE <<>>

Pad2(n) == IF n < 10 THEN "0" \o ToString(n) ELSE ToString(n)

\* The date formats of the model: the default of line 348 and a day-first one.
DateFormats == {"%Y-%m-%d %H:%M", "%d/%m/%Y"}

\* Line 417: date_obj.strftime(date_format), for years of four digits.
Strftime(t, date_format) ==
    IF date_format = "%Y-%m-%d %H:%M"
    THEN ToString(t.year) \o "-" \o Pad2(t.month) \o "-" \o Pad2(t.day)
         \o " " \o Pad2(t.hour) \o ":" \o Pad2(t.minute)
    ELSE Pad2(t.day) \o "/" \o Pad2(t.month) \o "/" \o ToString(t.year)

\* The last-modified time in every case.
DateObjMtime(exif, mtime) == [source |-> "mtime", instant |-> mtime]

\* Lines 404-414: date_obj, and where it came from. The else of line 410 and
\* the except of line 412 both take the last-modified time of the file.
DateObj(exif, mtime) ==
    LET parsed == IF exif.read = "tags" /\ exif.date # <<>>
                  THEN Strptime(exif.date[1]) ELSE <<>>
    IN  IF parsed # <<>> THEN [source |-> "exif", instant |-> parsed[1]]
        ELSE [source |-> "mtime", instant |-> mtime]

\* The location appended whether or not there is one.
TextLinesAlways(date_text, location_text) == <<date_text, location_text>>

\* Lines 425-428: text_lines
TextLines(date_text, location_text) ==
    IF Truthy(location_text) THEN <<date_text, location_text>> ELSE <<date_text>>

---------------------------------------------------------------------------
(* image_resize_and_add_caption, lines 348-472 *)

\* A source path, and os.path.basename of it.
Path(dir, name) == [dir |-> dir, name |-> name]

Basename(path) == path.name

\* What one source file holds and what the environment does while it is
\* processed:
\*   fails      the step that raises an exception no handler of its own
\*              catches, or "none": "open" (Image.open, line 355), "resize"
\*              (line 370), "date" (os.path.getmtime or strftime, lines
\*              411-417), "sample" (background sampling, lines 379-389),
\*              "font" (ImageFont.truetype of line 393 on a configured font
\*              file that exists and cannot be loaded; not in FailSteps,
\*              the steps that can raise when no font file is configured:
\*              what line 397 raises is caught at line 398), "draw" (lines
\*              442-448), "save_early" (save raises
\*              before it opens the output file), "save" (save raises while
\*              it writes, lines 457-460), "getsize" (line 463);
\*   img_width, img_height   img.size;
\*   exif       what img._getexif() gives;
\*   mtime      the last-modified time of the file;
\*   pixels     the colours of the resized image;
\*   geocoder   what the geocoding collaborator does if asked;
\*   enc_size   the size in bytes of the encoded output.
FailSteps == {"none", "open", "resize", "sample", "date", "draw", "save_early",
              "save", "getsize"}

SampleMtime == Instant(2020, 1, 2, 3, 4, 5)

SamplePixels == Pixels(White, Black, Black)

Image(fails, img_width, img_height, exif, geocoder, enc_size) ==
    [fails |-> fails, img_width |-> img_width, img_height |-> img_height,
     exif |-> exif, mtime |-> SampleMtime, pixels |-> SamplePixels,
     geocoder |-> geocoder, enc_size |-> enc_size]

\* Image.resize raises ValueError for a size with a zero side (Pillow).
ResizeRaises(im, nw, nh) == im.fails = "resize" \/ nw < 1 \/ nh < 1

\* Lines 403-428: the caption's lines. location_text is looked up only when
\* coordinates were found; a raise of _get_location_name would propagate.
CaptionText(im, date_format) ==
    LET coordinates == GetGpsCoordinates(im.exif)
        looked == IF coordinates # <<>>
                  THEN GetLocationName(coordinates, im.geocoder)
                  ELSE [raised |-> FALSE, value |-> None]
        date_obj == DateObj(im.exif, im.mtime)
    IN  [raised |-> looked.raised,
         coordinates |-> coordinates,
         geocoder_calls |-> IF coordinates # <<>> THEN 1 ELSE 0,
         date_source |-> date_obj.source,
         text_lines |-> TextLines(Strftime(date_obj.instant, date_format),
                                  looked.value)]

\* The caption made whatever the configuration says.
CaptioningAlways(caption) == TRUE

\* Line 377: `if caption:`
Captioning(caption) == caption

\* The first exception raised inside the try of lines 354-468, "none" when
\* the body runs to a return.
Raised(im, date_format, caption, nw, nh) ==
    IF im.fails = "open" THEN "open"
    ELSE IF ResizeRaises(im, nw, nh) THEN "resize"
    ELSE IF Captioning(caption) /\ im.fails \in {"sample", "font", "date"} THEN im.fails
    ELSE IF Captioning(caption) /\ CaptionText(im, date_format).raised THEN "geocoding"
    ELSE IF Captioning(caption) /\ im.fails = "draw" THEN "draw"
    ELSE IF im.fails \in {"save_early", "save", "getsize"} THEN im.fails
    ELSE "none"

\* The steps of the body in the order of the code: Image.open (355), resize
\* (370), the conversion to RGB (373-374), then under `if caption` the
\* background sampling (378-386), the font (391-401), the timestamp
\* (403-417), _get_gps_coordinates (421), _get_location_name (423, only with
\* coordinates) and the drawing (430-448), then save (452-460), getsize (463)
\* and, for a file over the budget, os.remove (465).
BodySteps(im, caption, too_large) ==
    <<"open", "resize", "convert">>
    \o (IF Captioning(caption)
        THEN <<"sample", "font", "date", "gps">>
             \o (IF GetGpsCoordinates(im.exif) # <<>> THEN <<"geocode">> ELSE <<>>)
             \o <<"draw">>
        ELSE <<>>)
    \o <<"save", "getsize">>
    \o (IF too_large THEN <<"remove">> ELSE <<>>)

\* The step at which each exception of Raised is raised.
StepOf(raised) ==
    IF raised = "geocoding" THEN "geocode"
    ELSE IF raised = "save_early" THEN "save"
    ELSE raised

\* The steps the body takes: all of them, or those up to the one that raises.
Steps(im, caption, too_large, raised) ==
    LET all == BodySteps(im, caption, too_large)
    IN  IF raised = "none" THEN all
        ELSE SubSeq(all, 1, CHOOSE k \in 1..Len(all) : all[k] = StepOf(raised))

\* The files of the temporary directory: at most one per name.
TempFile(name, src, size, complete) ==
    [name |-> name, src |-> src, size |-> size, complete |-> complete]

Exists(files, name) == \E f \in files : f.name = name

Remove(files, name) == {f \in files : f.name # name}

Write(files, f) == Remove(files, f.name) \cup {f}

\* resized_img.save(output_path) that raises while writing: Pillow removes
\* the file if save created it and leaves it truncated if it was there.
SaveRaised(files, image_path) ==
    IF Exists(files, Basename(image_path))
    THEN Write(files, TempFile(Basename(image_path), image_path, 0, FALSE))
    ELSE files

\* The size check with >= in place of >.
TooLargeInclusive(size, max_file_size) == size >= max_file_size

\* Line 463: os.path.getsize(output_path) > max_file_size
TooLarge(size, max_file_size) == size > max_file_size

\* The file over the budget left where it was saved.
DiscardKeeps(files, output_path) == files

\* Line 465: os.remove(output_path)
Discard(files, output_path) == Remove(files, output_path)

\* A body without the except clause: the exception leaves the function.
OuterExceptPropagates(raised) == [raised |-> TRUE, ret |-> None]

\* The except clause of lines 470-472 catches every Exception raised in the
\* body: the function returns None.
OuterExcept(raised) == [raised |-> FALSE, ret |-> None]

\* Did the body take this step?
Took(steps, step) == \E k \in 1..Len(steps) : steps[k] = step

\* What lines 403-428 leave behind them.
Captioned(text) ==
    [coordinates |-> text.coordinates, geocoder_calls |-> text.geocoder_calls,
     date_source |-> text.date_source, text_lines |-> text.text_lines]

\* What the caption part computed, as far as the body got: the colours once
\* the background was sampled (<<>> before), the lines of text once they
\* were built.
Computed(im, date_format, caption_position, raised, steps, nw, nh) ==
    [step |-> raised, new_width |-> nw, new_height |-> nh, steps |-> steps,
     colouring |-> IF Took(steps, "sample") /\ raised # "sample"
                   THEN <<Colouring(im.pixels, nw, nh, caption_position)>>
                   ELSE <<>>]
    @@ (IF Took(steps, "gps") /\ raised # "geocoding"
        THEN Captioned(CaptionText(im, date_format))
        ELSE [coordinates |-> <<>>, geocoder_calls |-> 0,
              date_source |-> None, text_lines |-> <<>>])

\* Lines 452-472: what is returned and what is left in the temporary
\* directory, given the exception raised in the body (or "none").
Outcome(image_path, files, saved, raised, too_large) ==
    IF raised = "save"
    THEN OuterExcept(raised) @@ [files |-> SaveRaised(files, image_path)]
    ELSE IF raised = "getsize"
    THEN OuterExcept(raised) @@ [files |-> Write(files, saved)]
    ELSE IF raised # "none"
    THEN OuterExcept(raised) @@ [files |-> files]
    ELSE IF too_large
    THEN [raised |-> FALSE, ret |-> None,
          files |-> Discard(Write(files, saved), saved.name)]
    ELSE [raised |-> FALSE, ret |-> saved.name, files |-> Write(files, saved)]

\* Lines 354-472 once the exception raised in the body is known.
Body(image_path, files, date_format, caption_position, caption, im, nw, nh, raised, too_large) ==
    Outcome(image_path, files,
            TempFile(Basename(image_path), image_path, im.enc_size, TRUE),
            raised, too_large)
    @@ Computed(im, date_format, caption_position, raised,
                Steps(im, caption, too_large, raised), nw, nh)

\* Lines 357-472 once the new size is known.
AfterResize(image_path, files, max_file_size, date_format, caption_position, caption, im, nw, nh) ==
    Body(image_path, files, date_format, caption_position, caption, im, nw, nh,
         Raised(im, date_format, caption, nw, nh),
         TooLarge(im.enc_size, max_file_size))

\* The whole function: what it returns (ret: the output path or None),
\* whether an exception leaves it (raised), the temporary directory after it
\* (files), and what it computed on the way.
image_resize_and_add_caption(image_path, files, target_width, target_height, max_file_size, date_format, caption_position, caption, im) ==
    AfterResize(image_path, files, max_file_size, date_format, caption_position, caption, im,
                new_width(im.img_width, im.img_height, target_width, target_height),
                new_height(im.img_width, im.img_height, target_width, target_height))

\* Line 219: max_file_size, in bytes.
MaxFileSize(max_file_size_mb) == max_file_size_mb * 1024 * 1024

\* The metadata SpecCaption reads: unreadable, none, and tags with each
\* sample capture time (absent, 2021:06:01 10:30:00, the same with dashes,
\* all zeros, the 30th of February) and each sample GPSInfo (absent,
\* 40 deg 26' 46" N 79 deg 56' 55" W, the same without the longitude, the
\* same without the latitude).
CaptionExifs ==
    {Exif("raises", <<>>, <<>>), Exif("empty", <<>>, <<>>)}
    \cup {Exif("tags", date, gps) :
            date \in {<<>>,
                      <<DateString(":", 2021, 6, 1, 10, 30, 0)>>,
                      <<DateString("-", 2021, 6, 1, 10, 30, 0)>>,
                      <<DateString(":", 0, 0, 0, 0, 0, 0)>>,
                      <<DateString(":", 2021, 2, 30, 10, 30, 0)>>},
            gps \in {<<>>,
                     <<GpsInfo(<<40, 26, 46>>, "N", <<79, 56, 55>>, "W")>>,
                     <<GpsInfo(<<40, 26, 46>>, "N", <<>>, None)>>,
                     <<GpsInfo(<<>>, None, <<79, 56, 55>>, "W")>>}}

\* The images SpecCaption processes: every failing step, every sample
\* metadata, four outcomes of the geocoding collaborator (no location, a
\* timeout, a city, an empty formatted address) and an encoded size
\* at the budget of 1 MB and just over it.
CaptionImages ==
    {Image(f, 8, 6, e, g, s) :
        f \in FailSteps, e \in CaptionExifs,
        g \in {GeoNoLocation, GeoRaises("GeocoderTimedOut"),
               GeoLocation(TRUE, "Pittsburgh", None, None, <<"5th Avenue">>),
               GeoLocation(TRUE, None, None, None, <<"">>)},
        s \in {1048576, 1048577}}

InitCaption ==
    /\ pc = "caption"
    /\ cap \in [state : {"input"}, date_format : DateFormats,
                caption_position : CaptionPositions, caption : BOOLEAN,
                im : CaptionImages]

\* The budget of SpecCaption: max_file_size for max_file_size_mb = 1.
CaptionBudget == MaxFileSize(1)

\* One call of image_resize_and_add_caption on the image and the settings
\* drawn by InitCaption, with an empty temporary directory, a target of 4 x 3
\* and a budget of 1 MB.
ProcessOne ==
    /\ pc = "caption"
    /\ cap.state = "input"
    /\ cap' = [state |-> "done", date_format |-> cap.date_format,
               caption_position |-> cap.caption_position,
               caption |-> cap.caption, im |-> cap.im,
               result |-> image_resize_and_add_caption(Path("a", "x.jpg"), {},
                             4, 3, CaptionBudget, cap.date_format,
                             cap.caption_position, cap.caption, cap.im)]
    /\ UNCHANGED <<pc, cfg, directory, env, image_files, selected_images, i,
                   final_images, progress, temp_files, log, tr, geo, gp, col,
                   fnt, mn, ub, up>>

---------------------------------------------------------------------------
(* image_resize_and_add_caption, lines 391-399: the font *)

\* The named platform default font of line 397.
DefaultFontName == "arial.ttf"

\* The font files of the model.
FontFiles == {"f.ttf", "arial.ttf"}

\* A font handle: the font ImageFont.truetype loaded from a file at a size,
\* or the built-in font of ImageFont.load_default.
TruetypeFont(path, size) == [kind |-> "truetype", path |-> path, size |-> size]

BuiltinFont == [kind |-> "builtin", path |-> None, size |-> 0]

\* ImageFont.truetype(path, size): the handle, or OSError for a file it
\* cannot find or cannot read as a font.
Truetype(path, size, loadable) ==
    IF path \in loadable
    THEN [raised |-> FALSE, font |-> <<TruetypeFont(path, size)>>]
    ELSE [raised |-> TRUE, font |-> <<>>]

\* Lines 396-399: the named default font, and the built-in font when loading
\* it raises anything; ImageFont.load_default needs no file.
DefaultFont(font_size, loadable) ==
    IF Truetype(DefaultFontName, font_size, loadable).raised
    THEN [raised |-> FALSE, font |-> <<BuiltinFont>>]
    ELSE Truetype(DefaultFontName, font_size, loadable)

\* Line 393: ImageFont.truetype(font_path, font_size), outside any try of
\* its own: what it raises leaves lines 391-399.
ConfiguredFont(font_path, font_size, loadable) ==
    Truetype(font_path, font_size, loadable)

\* Lines 391-399: the font (<<>> when loading raised), and whether an
\* exception leaves these lines. Line 392 is
\* `font_path and os.path.exists(font_path)`.
LoadFont(font_path, font_size, exists, loadable) ==
    IF Truthy(font_path) /\ font_path \in exists
    THEN ConfiguredFont(font_path, font_size, loadable)
    ELSE DefaultFont(font_size, loadable)

\* The source image while a font is resolved: nothing else fails; an
\* exception of the font loading is raised at the "font" step of the body.
FontImage(raised) ==
    Image(IF raised THEN "font" ELSE "none", 8, 6, Exif("empty", <<>>, <<>>),
          GeoNoLocation, 1048576)

InitFont ==
    /\ pc = "font"
    /\ fnt \in [state : {"input"}, font_path : {None, ""} \cup FontFiles,
                font_size : {40, 50}, exists : SUBSET FontFiles,
                loadable : SUBSET FontFiles, caption : BOOLEAN]

\* What the call made of the font: nothing is loaded without a caption.
FontResolved(f, loaded, r) ==
    [state |-> "done", font_path |-> f.font_path, font_size |-> f.font_size,
     exists |-> f.exists, loadable |-> f.loadable, caption |-> f.caption,
     font |-> IF Took(r.steps, "font") THEN loaded.font ELSE <<>>,
     steps |-> r.steps, colouring |-> r.colouring, ret |-> r.ret]

\* One call of image_resize_and_add_caption with the font setting and the
\* font files drawn by InitFont, on an image that is otherwise processed
\* without error.
ResolveFont ==
    /\ pc = "font"
    /\ fnt.state = "input"
    /\ fnt' = FontResolved(fnt, LoadFont(fnt.font_path, fnt.font_size, fnt.exists, fnt.loadable),
                 image_resize_and_add_caption(Path("a", "x.jpg"), {}, 4, 3,
                     CaptionBudget, "%Y-%m-%d %H:%M", "bottom", fnt.caption,
                     FontImage(LoadFont(fnt.font_path, fnt.font_size,
                                        fnt.exists, fnt.loadable).raised)))
    /\ UNCHANGED <<pc, cfg, directory, env, image_files, selected_images, i,
                   final_images, progress, temp_files, log, tr, geo, gp, col, cap,
                   mn, ub, up>>

---------------------------------------------------------------------------
(* get_image_files, lines 188-248, and main, lines 1098-1104 *)

\* The characters of the file names and of the extensions of the model.
Chars(name) ==
    CASE name = "x.jpg" -> <<"x", ".", "j", "p", "g">>
      [] name = "y.png" -> <<"y", ".", "p", "n", "g">>
      [] name = "B.JPG" -> <<"B", ".", "J", "P", "G">>
      [] name = "c.Jpeg" -> <<"c", ".", "J", "p", "e", "g">>
      [] name = "d.gif" -> <<"d", ".", "g", "i", "f">>
      [] name = "e.bmp" -> <<"e", ".", "b", "m", "p">>
      [] name = "g.PNG" -> <<"g", ".", "P", "N", "G">>
      [] name = "f.jpg.bak" -> <<"f", ".", "j", "p", "g", ".", "b", "a", "k">>
      [] name = "notes.txt" -> <<"n", "o", "t", "e", "s", ".", "t", "x", "t">>
      [] name = "jpg" -> <<"j", "p", "g">>
      [] name = ".nonixplay" -> <<".", "n", "o", "n", "i", "x", "p", "l", "a", "y">>
      [] name = ".jpg" -> <<".", "j", "p", "g">>
      [] name = ".jpeg" -> <<".", "j", "p", "e", "g">>
      [] name = ".png" -> <<".", "p", "n", "g">>
      [] name = ".gif" -> <<".", "g", "i", "f">>
      [] name = ".bmp" -> <<".", "b", "m", "p">>

\* str.lower on one character, for the capitals of the names above.
LowerChar(ch) ==
    CASE ch = "B" -> "b" [] ch = "G" -> "g" [] ch = "J" -> "j"
      [] ch = "N" -> "n" [] ch = "P" -> "p" [] OTHER -> ch

Lower(chars) == [k \in 1..Len(chars) |-> LowerChar(chars[k])]

\* str.endswith
EndsWith(chars, suffix) ==
    /\ Len(suffix) <= Len(chars)
    /\ SubSeq(chars, Len(chars) - Len(suffix) + 1, Len(chars)) = suffix

\* Line 190.
valid_extensions == <<".jpg", ".jpeg", ".png", ".gif", ".bmp">>

\* Line 200: any(file.lower().endswith(ext) for ext in valid_extensions)
HasValidExtension(file) ==
    \E k \in 1..Len(valid_extensions) :
        EndsWith(Lower(Chars(file)), Chars(valid_extensions[k]))

\* The directories of the model, by their path under the photos directory
\* ("."), and the subdirectories os.walk lists for each.
TreeDirs == {".", "a", "a/s", "a/s/t", "b", "c"}

Subdirs(d) ==
    CASE d = "." -> <<"a", "b", "c">>
      [] d = "a" -> <<"a/s">>
      [] d = "a/s" -> <<"a/s/t">>
      [] OTHER -> <<>>

\* Line 194: '.nonixplay' in files
Marked(files) == \E k \in 1..Len(files) : files[k] = ".nonixplay"

\* The subdirectories walked whatever the directory holds.
DescendAlways(files, dirs) == dirs

\* Line 196: dirs[:] = [] in a marked directory; os.walk, top-down, goes on
\* into the directories left in dirs.
Descend(files, dirs) == IF Marked(files) THEN <<>> ELSE dirs

\* Lines 194-201 for one directory: nothing from a marked one (continue),
\* else the paths of the files with a valid extension, in listing order.
CandidatesIn(d, files) ==
    IF Marked(files) THEN <<>>
    ELSE LET keep == SelectSeq(files, HasValidExtension)
         IN  [k \in 1..Len(keep) |-> Path(d, keep[k])]

\* Lines 193-201: os.walk from directory d of the tree (tree[d] is the
\* sequence of the names of the files in d), and from each of a sequence of
\* directories in turn.
RECURSIVE WalkFrom(_, _)
RECURSIVE WalkEach(_, _)
WalkFrom(tree, d) ==
    CandidatesIn(d, tree[d]) \o WalkEach(tree, Descend(tree[d], Subdirs(d)))

WalkEach(tree, dirs) ==
    IF dirs = <<>> THEN <<>>
    ELSE WalkFrom(tree, Head(dirs)) \o WalkEach(tree, Tail(dirs))

\* The listing os.walk gives: the k-th candidate path. Paths are distinct;
\* names repeat across directories.
FileAt(k) ==
    Path(<<"a", "b", "c">>[(((k - 1) \div 2) % 3) + 1],
         IF k % 2 = 1 THEN "x.jpg" ELSE "y.png")

Listing(n) == [k \in 1..n |-> FileAt(k)]

\* A tree that holds the first n of these files and nothing else.
PlainTree(n) ==
    [d \in TreeDirs |->
        LET here == SelectSeq(Listing(n), LAMBDA f : f.dir = d)
        IN  [k \in 1..Len(here) |-> here[k].name]]

\* The file lists of the trees of SpecWalk.
FileLists ==
    {<<>>, <<"x.jpg", "notes.txt">>, <<".nonixplay">>,
     <<"B.JPG", ".nonixplay", "y.png">>,
     <<"c.Jpeg", "d.gif", "e.bmp", "f.jpg.bak">>, <<"jpg", "g.PNG">>}

\* The images the run may meet: a plain one just under, exactly at and just
\* over a budget of 1 MB and over one of 2 MB, one for each step that can
\* raise, one so thin that its resized width is 0, and ones with GPS
\* coordinates under several outcomes of the geocoding collaborator. The
\* ones without coordinates have no metadata; the others have the tags of
\* 12 deg 20' 24" N, 56 deg 46' 48" E, which is (12.34, 56.78).
SampleGps == <<Coordinate(FALSE, 44424), Coordinate(FALSE, 204408)>>

NoExif == Exif("empty", <<>>, <<>>)

SampleGpsExif ==
    Exif("tags", <<>>, <<GpsInfo(<<12, 20, 24>>, "N", <<56, 46, 48>>, "E")>>)

PipelineImages ==
    {Image("none", 8, 6, NoExif, GeoNoLocation, s) : s \in {1048575, 1048576, 1048577, 2097153}}
    \cup {Image(f, 8, 6, NoExif, GeoNoLocation, 1048575) : f \in FailSteps}
    \cup {Image("none", 1, 9, NoExif, GeoNoLocation, 1048575)}
    \cup {Image("none", 8, 6, SampleGpsExif, GeoRaises(k), 1048575) :
            k \in {"GeocoderTimedOut", "OtherException"}}
    \cup {Image("none", 8, 6, SampleGpsExif,
                GeoLocation(TRUE, None, "Smalltown", None, <<"5th Avenue">>), 1048575)}

\* Drawing with replacement (random.choices): positions may repeat.
SampleWithReplacement(population, k) ==
    {[j \in 1..k |-> population[p[j]]] : p \in [1..k -> 1..Len(population)]}

\* random.sample(population, k): every sequence of k elements at distinct
\* positions of the population.
Sample(population, k) ==
    {[j \in 1..k |-> population[p[j]]] :
        p \in {q \in [1..k -> 1..Len(population)] :
                 \A a, b \in 1..k : a # b => q[a] # q[b]}}

\* Lines 204-209.
Selections(files, max_photos) ==
    IF Len(files) > max_photos THEN Sample(files, max_photos) ELSE {files}

\* final_images.insert(0, processed_path) in place of append.
AccumulatePrepend(final, processed_path) ==
    IF processed_path # None THEN <<processed_path>> \o final ELSE final

\* Lines 235-236.
Accumulate(final, processed_path) ==
    IF processed_path # None THEN Append(final, processed_path) ELSE final

\* Line 237: display_progress_bar("Resizing", start_time, 0, i+1, max_photos)
ProgressReport(index, max_photos) ==
    [current |-> index + 1, total |-> max_photos]

Idle ==
    /\ cfg = [state |-> "idle"]
    /\ directory = [state |-> "idle"]
    /\ env = [state |-> "idle"]
    /\ image_files = <<>>
    /\ selected_images = <<>>
    /\ i = 0
    /\ final_images = <<>>
    /\ progress = <<>>
    /\ temp_files = {}
    /\ log = <<>>

\* The state when main calls get_image_files. max_photos is a count; the
\* target sizes and the budget are positive.
Init ==
    /\ pc = "walk"
    /\ cfg \in [max_file_size_mb : 1..MaxMb, max_photos : 0..MaxPhotos,
                target_width : {4}, target_height : {3},
                date_format : {"%Y-%m-%d %H:%M"}, caption_position : {"bottom"},
                caption : BOOLEAN]
    /\ directory \in {[exists |-> FALSE, tree |-> PlainTree(0)]}
                     \cup {[exists |-> TRUE, tree |-> PlainTree(n)] : n \in 0..MaxFiles}
    /\ env \in [mkdtemp_ok : BOOLEAN]
    /\ image_files = <<>>
    /\ selected_images = <<>>
    /\ i = 0
    /\ final_images = <<>>
    /\ progress = <<>>
    /\ temp_files = {}
    /\ log = <<>>
    /\ tr = TrIdle
    /\ geo = GeoIdle
    /\ gp = GpIdle
    /\ col = ColIdle
    /\ cap = CapIdle
    /\ fnt = Unused
    /\ mn = Unused
    /\ ub = Unused
    /\ up = Unused

\* Lines 191-201: os.walk collects the candidates; it reports nothing, and
\* raises nothing, for a directory that does not exist.
Walk ==
    /\ pc = "walk"
    /\ image_files' = IF directory.exists THEN WalkFrom(directory.tree, ".") ELSE <<>>
    /\ pc' = "select"
    /\ UNCHANGED <<cfg, directory, env, selected_images, i, final_images,
                   progress, temp_files, log, tr, geo, gp, col, cap,
                   fnt, mn, ub, up>>

\* Lines 203-221: the selection, the temporary directory, the empty result.
\* tempfile.mkdtemp raising is caught at lines 243-248: exit(1).
Select ==
    /\ pc = "select"
    /\ \E s \in Selections(image_files, cfg.max_photos) : selected_images' = s
    /\ pc' = IF env.mkdtemp_ok THEN "loop" ELSE "exit"
    /\ UNCHANGED <<cfg, directory, env, image_files, i, final_images,
                   progress, temp_files, log, tr, geo, gp, col, cap,
                   fnt, mn, ub, up>>

\* Lines 234-237: what the loop does with the result r of
\* image_resize_and_add_caption for the image im at img_path. An exception
\* leaving the function would be caught at lines 246-248: exit(1).
Processed(img_path, im, r) ==
    /\ temp_files' = r.files
    /\ log' = Append(log, [src |-> img_path, fails |-> im.fails,
                           enc_size |-> im.enc_size,
                           gps |-> GetGpsCoordinates(im.exif),
                           geocoder |-> im.geocoder.kind,
                           step |-> r.step, steps |-> r.steps,
                           raised |-> r.raised,
                           ret |-> r.ret, text_lines |-> r.text_lines,
                           new_width |-> r.new_width,
                           new_height |-> r.new_height])
    /\ IF r.raised
       THEN /\ pc' = "exit"
            /\ UNCHANGED <<final_images, progress, i>>
       ELSE /\ final_images' = Accumulate(final_images, r.ret)
            /\ progress' = Append(progress, ProgressReport(i, cfg.max_photos))
            /\ i' = i + 1
            /\ pc' = pc

\* Lines 222-237: one turn of the loop on the next selected image.
ProcessImage ==
    /\ pc = "loop"
    /\ i < Len(selected_images)
    /\ \E im \in PipelineImages :
         Processed(selected_images[i + 1], im,
                   image_resize_and_add_caption(selected_images[i + 1], temp_files,
                       cfg.target_width, cfg.target_height,
                       MaxFileSize(cfg.max_file_size_mb), cfg.date_format,
                       cfg.caption_position, cfg.caption, im))
    /\ UNCHANGED <<cfg, directory, env, image_files, selected_images, tr, geo, gp, col, cap,
                   fnt, mn, ub, up>>

\* Lines 238-241: the loop is over, final_images is returned to main.
Return ==
    /\ pc = "loop"
    /\ i = Len(selected_images)
    /\ pc' = "returned"
    /\ UNCHANGED <<cfg, directory, env, image_files, selected_images, i,
                   final_images, progress, temp_files, log, tr, geo, gp, col, cap,
                   fnt, mn, ub, up>>

\* main, lines 1098-1104: exit(1) on an empty result, else on to the upload.
MainCheck ==
    /\ pc = "returned"
    /\ pc' = IF final_images = <<>> THEN "exit" ELSE "setup_webdriver"
    /\ UNCHANGED <<cfg, directory, env, image_files, selected_images, i,
                   final_images, progress, temp_files, log, tr, geo, gp, col, cap,
                   fnt, mn, ub, up>>

\* cleanup_temp_files, lines 54-66, registered with atexit at line 69: when
\* the process ends, by exit(1) or after the rest of main, shutil.rmtree
\* removes each directory of temp_directories, here the one of line 213 with
\* the files in it. rmtree unlinks the files one after the other, in the
\* order the directory lists them, and raises at the first it cannot remove
\* (caught at line 62): the files it removed before stay removed, that one
\* and the ones after it are left. left is what stays, none when rmtree
\* returns.
CleanupTempFiles ==
    /\ pc \in {"exit", "setup_webdriver"}
    /\ pc' = "ended"
    /\ \E left \in SUBSET temp_files : temp_files' = left
    /\ UNCHANGED <<cfg, directory, env, image_files, selected_images, i,
                   final_images, progress, log, tr, geo, gp, col, cap,
                   fnt, mn, ub, up>>

Next == Walk \/ Select \/ ProcessImage \/ Return \/ MainCheck \/ CleanupTempFiles

Spec == Init /\ [][Next]_vars

InitT == InitTransform /\ Idle /\ geo = GeoIdle /\ gp = GpIdle /\ col = ColIdle /\ cap = CapIdle
    /\ fnt = Unused /\ mn = Unused /\ ub = Unused /\ up = Unused

SpecTransform == InitT /\ [][Transform]_vars

InitG == InitGeo /\ Idle /\ tr = TrIdle /\ gp = GpIdle /\ col = ColIdle /\ cap = CapIdle
    /\ fnt = Unused /\ mn = Unused /\ ub = Unused /\ up = Unused

SpecGeo == InitG /\ [][GetLocation]_vars

InitP == InitGps /\ Idle /\ tr = TrIdle /\ geo = GeoIdle /\ col = ColIdle /\ cap = CapIdle
    /\ fnt = Unused /\ mn = Unused /\ ub = Unused /\ up = Unused

SpecGps == InitP /\ [][GetGps]_vars

\* get_image_files is called on a photos directory with any of the file
\* lists in each of its directories but the last.
InitW ==
    /\ pc = "walk"
    /\ directory \in {[exists |-> TRUE, tree |-> t] :
                         t \in {u \in [TreeDirs -> FileLists] : u["c"] = <<>>}}
    /\ cfg = [state |-> "idle"]
    /\ env = [state |-> "idle"]
    /\ image_files = <<>>
    /\ selected_images = <<>>
    /\ i = 0
    /\ final_images = <<>>
    /\ progress = <<>>
    /\ temp_files = {}
    /\ log = <<>>
    /\ tr = TrIdle /\ geo = GeoIdle /\ gp = GpIdle /\ col = ColIdle /\ cap = CapIdle
    /\ fnt = Unused /\ mn = Unused /\ ub = Unused /\ up = Unused

SpecWalk == InitW /\ [][Walk]_vars

InitC == InitColour /\ Idle /\ tr = TrIdle /\ geo = GeoIdle /\ gp = GpIdle /\ cap = CapIdle
    /\ fnt = Unused /\ mn = Unused /\ ub = Unused /\ up = Unused

SpecColour == InitC /\ [][Shade]_vars

InitO == InitCaption /\ Idle /\ tr = TrIdle /\ geo = GeoIdle /\ gp = GpIdle /\ col = ColIdle
    /\ fnt = Unused /\ mn = Unused /\ ub = Unused /\ up = Unused

SpecCaption == InitO /\ [][ProcessOne]_vars

InitF == InitFont /\ Idle /\ tr = TrIdle /\ geo = GeoIdle /\ gp = GpIdle /\ col = ColIdle
    /\ cap = CapIdle /\ mn = Unused /\ ub = Unused /\ up = Unused

SpecFont == InitF /\ [][ResolveFont]_vars

---------------------------------------------------------------------------
(* main, lines 1104-1135: the browser session *)

\* What a step of the session gives back: True, False, or an exception that
\* leaves it. login_to_nixplay, delete_my_uploads, find_playlist,
\* delete_all_from_playlist and upload_photos catch every Exception of their
\* bodies, and call save_debug_snapshot in the handler, outside any try;
\* save_debug_snapshot (lines 72-88) raises what os.makedirs raises at line
\* 77, before its own try.
StepResults == {"True", "False", "raises"}

SnapshotResults == {"saved", "raises"}

\* A call made by main and what came of it, appended to the calls so far.
Call(calls, fn, result) == Append(calls, [fn |-> fn, result |-> result])

\* The session goes on at pos; once main is being left, leave says how:
\* "exit(1)", "return False", "return None" (the end of the function), or
\* "raise" (an exception leaves main).
Goes(m, fn, result, pos, leave) ==
    [pos |-> pos, leave |-> leave, calls |-> Call(m.calls, fn, result),
     delete_my_uploads |-> m.delete_my_uploads, driver |-> m.driver]

\* Login failure ignored.
LoginFailedGoesOn(m) == Goes(m, "login_to_nixplay", "False", "find_playlist", "running")

\* Lines 1107-1109: `if not login_to_nixplay(...): exit(1)`; SystemExit is
\* no Exception, the except clause of line 1129 lets it through.
LoginFailed(m) == Goes(m, "login_to_nixplay", "False", "finally", "exit(1)")

\* Line 1111: `if(cfg.delete_my_uploads == True)`
AfterLogin(m) == IF m.delete_my_uploads THEN "delete_my_uploads" ELSE "find_playlist"

InitMain ==
    /\ pc = "setup_webdriver"
    /\ mn \in [pos : {"setup_webdriver"}, leave : {"running"}, calls : {<<>>},
               delete_my_uploads : BOOLEAN, driver : {FALSE}]

\* Line 1104 and lines 474-503: a driver, or exit(1) before the try.
SetupWebdriver ==
    /\ mn.pos = "setup_webdriver"
    /\ \E made \in BOOLEAN :
         mn' = IF made
               THEN [Goes(mn, "setup_webdriver", "driver", "login", "running")
                        EXCEPT !.driver = TRUE]
               ELSE Goes(mn, "setup_webdriver", "exit", "exited", "exit(1)")
    /\ UNCHANGED <<pc, cfg, directory, env, image_files, selected_images, i,
                   final_images, progress, temp_files, log, tr, geo, gp, col, cap,
                   fnt, ub, up>>

\* Lines 1107-1109.
LoginToNixplay ==
    /\ mn.pos = "login"
    /\ \E r \in StepResults :
         mn' = IF r = "True" THEN Goes(mn, "login_to_nixplay", r, AfterLogin(mn), "running")
               ELSE IF r = "False" THEN LoginFailed(mn)
               ELSE Goes(mn, "login_to_nixplay", r, "except", "running")
    /\ UNCHANGED <<pc, cfg, directory, env, image_files, selected_images, i,
                   final_images, progress, temp_files, log, tr, geo, gp, col, cap,
                   fnt, ub, up>>

\* Lines 1111-1113: a failure is logged and the session goes on.
DeleteMyUploads ==
    /\ mn.pos = "delete_my_uploads"
    /\ \E r \in StepResults :
         mn' = Goes(mn, "delete_my_uploads", r,
                    IF r = "raises" THEN "except" ELSE "find_playlist", "running")
    /\ UNCHANGED <<pc, cfg, directory, env, image_files, selected_images, i,
                   final_images, progress, temp_files, log, tr, geo, gp, col, cap,
                   fnt, ub, up>>

\* Lines 1116-1118: `if not find_playlist(...): return False`
FindPlaylist ==
    /\ mn.pos = "find_playlist"
    /\ \E r \in StepResults :
         mn' = IF r = "True"
               THEN Goes(mn, "find_playlist", r, "delete_all_from_playlist", "running")
               ELSE IF r = "False" THEN Goes(mn, "find_playlist", r, "finally", "return False")
               ELSE Goes(mn, "find_playlist", r, "except", "running")
    /\ UNCHANGED <<pc, cfg, directory, env, image_files, selected_images, i,
                   final_images, progress, temp_files, log, tr, geo, gp, col, cap,
                   fnt, ub, up>>

\* Lines 1121-1122: a failure is logged and the session goes on.
DeleteAllFromPlaylist ==
    /\ mn.pos = "delete_all_from_playlist"
    /\ \E r \in StepResults :
         mn' = Goes(mn, "delete_all_from_playlist", r,
                    IF r = "raises" THEN "except" ELSE "upload_photos", "running")
    /\ UNCHANGED <<pc, cfg, directory, env, image_files, selected_images, i,
                   final_images, progress, temp_files, log, tr, geo, gp, col, cap,
                   fnt, ub, up>>

\* Lines 1124-1128: exit(1) on a failed upload, else the end of the try.
UploadPhotos ==
    /\ mn.pos = "upload_photos"
    /\ \E r \in StepResults :
         mn' = IF r = "True" THEN Goes(mn, "upload_photos", r, "finally", "return None")
               ELSE IF r = "False" THEN Goes(mn, "upload_photos", r, "finally", "exit(1)")
               ELSE Goes(mn, "upload_photos", r, "except", "running")
    /\ UNCHANGED <<pc, cfg, directory, env, image_files, selected_images, i,
                   final_images, progress, temp_files, log, tr, geo, gp, col, cap,
                   fnt, ub, up>>

\* Lines 1129-1131: the handler of an Exception raised in the try; what its
\* own save_debug_snapshot raises goes on to the finally clause.
MainExcept ==
    /\ mn.pos = "except"
    /\ \E s \in SnapshotResults :
         mn' = Goes(mn, "save_debug_snapshot", s, "finally",
                    IF s = "raises" THEN "raise" ELSE "return None")
    /\ UNCHANGED <<pc, cfg, directory, env, image_files, selected_images, i,
                   final_images, progress, temp_files, log, tr, geo, gp, col, cap,
                   fnt, ub, up>>

\* Lines 1132-1135: save_debug_snapshot, then driver.quit(); an exception of
\* the first leaves main before the second is called.
FinalSnapshot(m, s, quit) ==
    IF s = "raises"
    THEN Goes(m, "save_debug_snapshot", s, "exited", "raise")
    ELSE [Goes(m, "save_debug_snapshot", s, "exited", IF quit = "raises" THEN "raise" ELSE m.leave)
             EXCEPT !.calls = Call(@, "driver.quit", quit)]

\* Lines 1132-1135: the finally clause.
MainFinally ==
    /\ mn.pos = "finally"
    /\ \E s \in SnapshotResults, quit \in {"quit", "raises"} :
         mn' = FinalSnapshot(mn, s, quit)
    /\ UNCHANGED <<pc, cfg, directory, env, image_files, selected_images, i,
                   final_images, progress, temp_files, log, tr, geo, gp, col, cap,
                   fnt, ub, up>>

NextMain ==
    \/ SetupWebdriver \/ LoginToNixplay \/ DeleteMyUploads \/ FindPlaylist
    \/ DeleteAllFromPlaylist \/ UploadPhotos \/ MainExcept \/ MainFinally

\* main from the call of setup_webdriver on, with delete_my_uploads set or not.
InitM == InitMain /\ Idle /\ tr = TrIdle /\ geo = GeoIdle /\ gp = GpIdle /\ col = ColIdle
    /\ cap = CapIdle /\ fnt = Unused /\ ub = Unused /\ up = Unused

SpecMain == InitM /\ [][NextMain]_vars

---------------------------------------------------------------------------
(* upload_batch, lines 867-996: the progress-monitoring loop *)

\* The smaller of two numbers.
Min(a, b) == IF a < b THEN a ELSE b

\* Line 871: stall_timeout = min(200, len(batch))
StallTimeout(batch_len) == Min(200, batch_len)

\* Line 872: max_upload_time = max(300, 2 * len(batch)*batch_number)
MaxUploadTime(batch_len, batch_number) ==
    IF 2 * batch_len * batch_number > 300 THEN 2 * batch_len * batch_number ELSE 300

\* Lines 877-914: the look for the error modal, and the seconds it takes:
\* "none", no modal within the 5 s of short_wait (TimeoutException);
\* "dismissed", a modal found at once, Ok clicked, time.sleep(2);
\* "error", any other exception, at once.
ModalSeconds(modal) ==
    IF modal = "none" THEN 5 ELSE IF modal = "dismissed" THEN 2 ELSE 0

\* What a look at the progress text gives (lines 933-946): "absent", no
\* such element (NoSuchElementException); "error", any other exception of
\* the driver; "no_of", a text without " of " or with a count that is no
\* number; "progress", the text "n of <total> files"; "no_total", the text
\* "n of <something that is no number>".
Reads(batch_end_count) ==
    [kind : {"absent", "error", "no_of"}, n : {0}]
    \cup [kind : {"progress"}, n : 0..batch_end_count]
    \cup [kind : {"no_total"}, n : 1..batch_end_count]

\* The clock. The model counts the whole seconds that the sleeps and waits
\* take; the code itself takes time as well, less than a second in all, so a
\* count is a lower bound of what time.time() reads and two readings differ
\* by their counts or by a little more. Past(seconds, limit) is what a test
\* `later reading - earlier reading > limit` of lines 917 and 975 can give
\* when the counts differ by seconds: at seconds = limit it is true on a
\* clock that has moved between the readings and false on one that has not.
Past(seconds, limit) ==
    IF seconds > limit THEN {TRUE} ELSE IF seconds = limit THEN {TRUE, FALSE} ELSE {FALSE}

\* The loop is left at time now, by break or by an exception.
Leaves(b, exit, raised, now) ==
    [b EXCEPT !.state = "left", !.exit = exit, !.raised = raised, !.now = now]

\* Lines 975-978: the stall check at time b.now, the last statement of the
\* try. Its save_debug_snapshot either returns, and the loop is left, or
\* raises: that is caught at line 994 and the loop goes on.
StallCheck(b) ==
    IF TRUE \in Past(b.now - b.last_progress_change_time, b.stall_timeout)
    THEN {Leaves(b, "stalled", FALSE, b.now), b}
    ELSE {b}

\* Lines 962-964: the progress read at time t, taken down if it changed.
Noted(b, t, n) ==
    [b EXCEPT !.now = t, !.last_progress = n,
              !.last_progress_change_time = IF n # b.last_progress THEN t ELSE @]

\* The target missed when the count is exactly the expected one.
ReachedStrictly(current_progress, batch_end_count) == current_progress > batch_end_count

\* Line 967: current_progress >= batch_end_count
Reached(current_progress, batch_end_count) == current_progress >= batch_end_count

\* Lines 948-978, at time t with current_progress = n: a positive count is
\* shown and taken down, and on the target the loop is left after
\* time.sleep(5); then the stall check.
Progressed(b, t, n) ==
    IF n > 0
    THEN IF Reached(n, b.batch_end_count)
         THEN {Leaves(Noted(b, t, n), "target", FALSE, t + 5)}
         ELSE StallCheck(Noted(b, t, n))
    ELSE StallCheck([b EXCEPT !.now = t])

\* Lines 932-996: the look at the progress text at time t. Line 943 binds
\* website_total only when the total is a number; the message of line 959
\* reads it, and the NameError of an unbound website_total is caught at
\* line 994 like any other exception of the try.
ReadProgress(b, t, read) ==
    IF read.kind = "absent" THEN {Leaves(b, "disappeared", FALSE, t + 2)}
    ELSE IF read.kind = "error" THEN {[b EXCEPT !.now = t]}
    ELSE IF read.kind = "progress" THEN Progressed([b EXCEPT !.website_total = TRUE], t, read.n)
    ELSE IF read.kind = "no_total" /\ ~b.website_total THEN {[b EXCEPT !.now = t]}
    ELSE Progressed(b, t, read.n)

\* Lines 917-931, at time t, start_time being 0: past the limit the loop is
\* left, by break or by what save_debug_snapshot raises; else time.sleep(2)
\* and on to the progress text. checked is the time of the test of line 917
\* and past_limit what it gave.
Turn(b, t, read) ==
    UNION {IF past
           THEN {Leaves([b EXCEPT !.checked = t, !.past_limit = TRUE], "max_time", raised, t) :
                    raised \in BOOLEAN}
           ELSE ReadProgress([b EXCEPT !.checked = t], t + 2, read) :
           past \in Past(t, b.max_upload_time)}

\* Lines 868-874: the loop is entered at time 0 (start_time), website_total
\* not yet bound. final_progress, which only the messages read, is left out.
\* The batches whose upload is watched: 1 image in the first batch; 2 images
\* in the first batch; 1 image in the third batch after two that succeeded;
\* 1 image in batch 151 after none that succeeded.
InitBatch ==
    /\ pc = "upload_batch"
    /\ \E s \in {[batch_len |-> 1, batch_number |-> 1, batch_end_count |-> 1],
                 [batch_len |-> 2, batch_number |-> 1, batch_end_count |-> 2],
                 [batch_len |-> 1, batch_number |-> 3, batch_end_count |-> 3],
                 [batch_len |-> 1, batch_number |-> 151, batch_end_count |-> 1]} :
         ub = [state |-> "monitoring", batch_len |-> s.batch_len,
               batch_number |-> s.batch_number, batch_end_count |-> s.batch_end_count,
               stall_timeout |-> StallTimeout(s.batch_len),
               max_upload_time |-> MaxUploadTime(s.batch_len, s.batch_number),
               now |-> 0, last_progress |-> 0, last_progress_change_time |-> 0,
               website_total |-> FALSE,
               checked |-> 0, past_limit |-> FALSE, exit |-> "none", raised |-> FALSE]

\* Lines 876-996: one turn of `while True`.
Monitor ==
    /\ ub.state = "monitoring"
    /\ \E modal \in {"none", "dismissed", "error"}, read \in Reads(ub.batch_end_count) :
         ub' \in Turn(ub, ub.now + ModalSeconds(modal), read)
    /\ UNCHANGED <<pc, cfg, directory, env, image_files, selected_images, i,
                   final_images, progress, temp_files, log, tr, geo, gp, col, cap,
                   fnt, mn, up>>

InitB == InitBatch /\ Idle /\ tr = TrIdle /\ geo = GeoIdle /\ gp = GpIdle /\ col = ColIdle
    /\ cap = CapIdle /\ fnt = Unused /\ mn = Unused /\ up = Unused

\* No turn of the loop blocks for ever: its waits and sleeps are bounded.
SpecBatch == InitB /\ [][Monitor]_vars /\ WF_vars(Monitor)

---------------------------------------------------------------------------
(* upload_photos, lines 1013-1069 *)

\* A slice that takes the first image of the next batch as well.
SliceOverlapping(images, start, batch_size) ==
    SubSeq(images, start + 1, Min(start + batch_size + 1, Len(images)))

\* Line 1034: selected_images[i:i + batch_size], with start for i, where
\* 0 <= start and 1 <= batch_size.
Slice(images, start, batch_size) ==
    SubSeq(images, start + 1, Min(start + batch_size, Len(images)))

\* Lines 1034-1039: the arguments of upload_batch at offset start.
BatchArgs(images, start, batch_size, cumulative_uploaded_count) ==
    [batch |-> Slice(images, start, batch_size),
     batch_number |-> (start \div batch_size) + 1,
     batch_count |-> ((Len(images) - 1) \div batch_size) + 1,
     batch_end_count |-> cumulative_uploaded_count + Len(Slice(images, start, batch_size))]

\* upload_photos is called with the accepted images, of which main has
\* checked that there is at least one, and a batch size; the k-th image is k.
InitUpload ==
    /\ pc = "upload_photos"
    /\ up \in [state : {"loop"}, selected_images : {[k \in 1..n |-> k] : n \in 1..MaxImages},
               batch_size : 1..MaxBatchSize, i : {0}, cumulative_uploaded_count : {0},
               calls : {<<>>}, ret : {None}]

\* Lines 1033-1056: one turn of the loop. upload_batch returns True or False,
\* or raises (line 861 catches TimeoutException only; the handlers call
\* save_debug_snapshot): then the handler of lines 1066-1069 runs. Its
\* save_debug_snapshot is outside any try: when the snapshot is saved
\* upload_photos returns False, when it raises upload_photos raises.
UploadBatch ==
    /\ up.state = "loop"
    /\ up.i < Len(up.selected_images)
    /\ \E batch_success \in StepResults, snapshot \in SnapshotResults :
         up' = [up EXCEPT
                  !.calls = Append(@, BatchArgs(up.selected_images, up.i, up.batch_size,
                                                up.cumulative_uploaded_count)
                                      @@ [result |-> batch_success]),
                  !.cumulative_uploaded_count =
                      IF batch_success = "True"
                      THEN @ + Len(Slice(up.selected_images, up.i, up.batch_size))
                      ELSE @,
                  !.i = @ + up.batch_size,
                  !.state = IF batch_success # "raises" THEN @
                            ELSE IF snapshot = "saved" THEN "returned" ELSE "raised",
                  !.ret = IF batch_success # "raises" THEN @
                          ELSE IF snapshot = "saved" THEN "False" ELSE "raises"]
    /\ UNCHANGED <<pc, cfg, directory, env, image_files, selected_images, i,
                   final_images, progress, temp_files, log, tr, geo, gp, col, cap,
                   fnt, mn, ub>>

\* Lines 1058-1064: the loop is over, upload_photos returns True.
UploadReturn ==
    /\ up.state = "loop"
    /\ up.i >= Len(up.selected_images)
    /\ up' = [up EXCEPT !.state = "returned", !.ret = "True"]
    /\ UNCHANGED <<pc, cfg, directory, env, image_files, selected_images, i,
                   final_images, progress, temp_files, log, tr, geo, gp, col, cap,
                   fnt, mn, ub>>

NextUpload == UploadBatch \/ UploadReturn

InitU == InitUpload /\ Idle /\ tr = TrIdle /\ geo = GeoIdle /\ gp = GpIdle /\ col = ColIdle
    /\ cap = CapIdle /\ fnt = Unused /\ mn = Unused /\ ub = Unused

SpecUpload == InitU /\ [][NextUpload]_vars

---------------------------------------------------------------------------
(* Properties of get_image_files and main, checked under Spec *)

Budget == MaxFileSize(cfg.max_file_size_mb)

Accepted(e) == e.ret # None

Indices(seq) == 1..Len(seq)

WithinBudget(entries) == {j \in Indices(entries) : entries[j].enc_size <= Budget}

\* C1: an image whose encoded output is larger than max_file_size is not
\* returned, every returned image had an encoded size <= max_file_size, and
\* when get_image_files returns after a run in which no image failed
\* otherwise, the returned list is as long as the number of selected images
\* that encoded within the budget.
C1_SizeBudget ==
    /\ \A j \in Indices(log) :
         /\ log[j].enc_size > Budget => ~Accepted(log[j])
         /\ Accepted(log[j]) => log[j].enc_size <= Budget
    /\ Len(final_images) = Cardinality({j \in Indices(log) : Accepted(log[j])})
    /\ (pc = "returned" /\ \A j \in Indices(log) : log[j].step = "none")
         => /\ Len(log) = Len(selected_images)
            /\ Len(final_images) = Cardinality(WithinBudget(log))

\* Three images selected, one of them over the budget, two returned.
C1_Witness ==
    /\ pc = "returned"
    /\ Len(selected_images) = 3
    /\ \A j \in Indices(log) : log[j].step = "none"
    /\ Cardinality(WithinBudget(log)) = 2
    /\ \E j \in Indices(log) : log[j].enc_size = Budget /\ Accepted(log[j])
    /\ Len(final_images) = 2

\* C2: no exception leaves image_resize_and_add_caption; an image in whose
\* processing a step raised is skipped (None), and the loop goes on: when
\* get_image_files is left, by return or by exit, either the temporary
\* directory could not be made and no image was touched, or every selected
\* image was processed; and the run exits only in the first case or with an
\* empty accepted list.
C2_FailureIsolated ==
    /\ \A j \in Indices(log) :
         /\ ~log[j].raised
         /\ log[j].step # "none" => log[j].ret = None
         /\ log[j].src = selected_images[j]
    /\ pc = "loop" => Len(log) = i
    /\ pc \in {"returned", "setup_webdriver"} => Len(log) = Len(selected_images)
    /\ pc = "exit" =>
         \/ ~env.mkdtemp_ok /\ log = <<>>
         \/ Len(log) = Len(selected_images) /\ final_images = <<>>

\* The first image fails at a step, a later one is accepted, and main goes
\* on to the upload.
C2_Witness ==
    /\ pc = "setup_webdriver"
    /\ Len(log) = 3
    /\ log[1].step = "open" /\ log[2].step = "save" /\ log[3].step = "none"
    /\ final_images = <<log[3].ret>>

AcceptedOutputs(entries) ==
    LET kept == SelectSeq(entries, Accepted)
    IN  [k \in 1..Len(kept) |-> kept[k].ret]

\* C3: the returned list holds the outputs of the accepted images in the
\* order of their sources in the selected sequence.
C3_OrderPreserved ==
    /\ \A j \in Indices(log) : log[j].src = selected_images[j]
    /\ final_images = AcceptedOutputs(log)

\* A sample of two out of three candidates, in other than candidate order,
\* both accepted: the outputs come in the order of the sample.
C3_Witness ==
    /\ pc = "returned"
    /\ Len(image_files) = 3
    /\ selected_images = <<image_files[2], image_files[1]>>
    /\ final_images = <<Basename(image_files[2]), Basename(image_files[1])>>
    /\ final_images = <<"y.png", "x.jpg">>

Selected == pc \notin {"walk", "select"}

\* C4: with no more candidates than max_photos the selected sequence is the
\* candidate sequence; with more, it has exactly max_photos elements, each a
\* candidate, no candidate position taken twice (the candidate paths are
\* pairwise distinct).
C4_Selector ==
    Selected =>
        /\ Len(image_files) <= cfg.max_photos => selected_images = image_files
        /\ Len(image_files) > cfg.max_photos =>
             /\ Len(selected_images) = cfg.max_photos
             /\ \A j \in Indices(selected_images) :
                  \E k \in Indices(image_files) : selected_images[j] = image_files[k]
             /\ \A j, k \in Indices(selected_images) :
                  j # k => selected_images[j] # selected_images[k]

\* Two of three candidates sampled, out of candidate order.
C4_Witness ==
    /\ Selected
    /\ Len(image_files) = 3
    /\ cfg.max_photos = 2
    /\ selected_images = <<image_files[3], image_files[1]>>

\* C8: progress is reported once per processed image, with current = the
\* number of images processed so far and total = the number of selected
\* images, so the last report of a run has current = total.
C8_ProgressTotalSelected ==
    /\ Len(progress) = Len(log)
    /\ \A k \in Indices(progress) :
         /\ progress[k].current = k
         /\ progress[k].total = Len(selected_images)
    /\ (pc = "returned" /\ progress # <<>>)
         => progress[Len(progress)].current = progress[Len(progress)].total

---------------------------------------------------------------------------
(* Properties of the resize arithmetic, checked under SpecTransform *)

Resized == tr.state = "resized"

TrWidthBinds == WidthBinds(tr.img_width, tr.img_height, tr.target_width, tr.target_height)

\* C5: for all positive image and target sizes, new_width <= target_width
\* and new_height <= target_height.
C5_WithinTarget ==
    Resized => /\ tr.new_width <= tr.target_width
               /\ tr.new_height <= tr.target_height

\* Width binds, and the derived height is positive and below its target.
C5_Witness ==
    /\ Resized
    /\ TrWidthBinds
    /\ tr.new_width = tr.target_width
    /\ tr.new_height >= 1
    /\ tr.new_height < tr.target_height

\* C6 as claimed: exactly one of the two final dimensions equals its target,
\* never both.
C6_ExactlyOne ==
    Resized => (tr.new_width = tr.target_width) # (tr.new_height = tr.target_height)

\* C6 as amended: at least one of the two final dimensions equals its
\* target, and both do only for a source whose aspect ratio is the target's.
C6_AtLeastOne ==
    Resized =>
        /\ tr.new_width = tr.target_width \/ tr.new_height = tr.target_height
        /\ (tr.new_width = tr.target_width /\ tr.new_height = tr.target_height)
             => tr.img_width * tr.target_height = tr.img_height * tr.target_width

\* An 8x6 source into a 4x3 target: both dimensions equal their targets.
C6_Witness ==
    /\ Resized
    /\ tr.img_width = 8 /\ tr.img_height = 6
    /\ tr.target_width = 4 /\ tr.target_height = 3
    /\ tr.new_width = 4 /\ tr.new_height = 3

Abs(x) == IF x < 0 THEN -x ELSE x

\* C7 as claimed: the binding dimension is its target and the other one is
\* the exact quotient rounded to the nearest integer (at most 1/2 away).
C7_RoundedToNearest ==
    Resized =>
        IF TrWidthBinds
        THEN /\ tr.new_width = tr.target_width
             /\ 2 * Abs(tr.new_height * tr.img_width - tr.target_width * tr.img_height)
                  <= tr.img_width
        ELSE /\ tr.new_height = tr.target_height
             /\ 2 * Abs(tr.new_width * tr.img_height - tr.target_height * tr.img_width)
                  <= tr.img_height

\* C7 as amended: the binding dimension is its target and the other one is
\* the quotient truncated, not rounded: the largest integer not above the
\* exact quotient, or one less than an exact quotient that is a whole number
\* (the double arithmetic can fall just short of it).
C7_Truncated ==
    Resized =>
        IF TrWidthBinds
        THEN /\ tr.new_width = tr.target_width
             /\ tr.new_height * tr.img_width <= tr.target_width * tr.img_height
             /\ tr.target_width * tr.img_height <= (tr.new_height + 1) * tr.img_width
        ELSE /\ tr.new_height = tr.target_height
             /\ tr.new_width * tr.img_height <= tr.target_height * tr.img_width
             /\ tr.target_height * tr.img_width <= (tr.new_width + 1) * tr.img_height

\* A 3x2 source into a 4x4 target: the exact height is 2.67, the code's is 2.
C7_Witness ==
    /\ Resized
    /\ tr.img_width = 3 /\ tr.img_height = 2
    /\ tr.target_width = 4 /\ tr.target_height = 4
    /\ tr.new_width = 4 /\ tr.new_height = 2

---------------------------------------------------------------------------
(* Properties of _get_location_name, checked under SpecGeo *)

Resolved == geo.state = "resolved"

Lat == geo.coordinates[1]

Lon == geo.coordinates[2]

Deg1234 == <<Coordinate(FALSE, 44424), Coordinate(FALSE, 204408)>>

Pittsburgh == <<Coordinate(FALSE, 145606), Coordinate(TRUE, 287815)>>

FormattedCoordinates ==
    /\ geo.location_text = Format4f(Lat) \o ", " \o Format4f(Lon)
    /\ geo.coordinates = Deg1234 => geo.location_text = "12.3400, 56.7800"
    /\ geo.coordinates = Pittsburgh => geo.location_text = "40.4461, -79.9486"

\* C9: when the reverse lookup fails with a provider timeout, provider
\* unavailable or a transport failure, _get_location_name does not raise and
\* returns "{lat:.4f}, {lon:.4f}": "12.3400, 56.7800" for (12.34, 56.78).
C9_FallbackCoordinates ==
    (Resolved /\ geo.outcome.kind \in {"GeocoderTimedOut", "GeocoderUnavailable",
                                        "RequestException"})
        => ~geo.raised /\ FormattedCoordinates

\* The lookup for (12.34, 56.78) timed out.
C9_Witness ==
    /\ Resolved
    /\ geo.outcome.kind = "GeocoderTimedOut"
    /\ geo.coordinates = Deg1234
    /\ geo.location_text = "12.3400, 56.7800"

OtherFailures == {"ImportError", "ConstructorError", "OtherException"}

\* C10 as claimed: any failure other than timeout, unavailable or transport
\* failure, the geocoder failing to load or to be constructed included,
\* yields no location (None).
C10_OtherFailureNone ==
    (Resolved /\ geo.outcome.kind \in OtherFailures) => geo.location_text = None

\* C10 as amended: any such other failure yields the same coordinate string
\* "{lat:.4f}, {lon:.4f}" and no exception; _get_location_name yields None
\* only when the lookup returns no location or one with no structured
\* address.
C10_OtherFailureCoordinates ==
    /\ (Resolved /\ geo.outcome.kind \in OtherFailures)
         => ~geo.raised /\ FormattedCoordinates
    /\ Resolved =>
         (geo.location_text = None
            <=> \/ geo.outcome.kind = "NoLocation"
                \/ geo.outcome.kind = "Location" /\ ~geo.outcome.has_address)

\* The lookup for (12.34, 56.78) raised an exception of another kind.
C10_Witness ==
    /\ Resolved
    /\ geo.outcome.kind = "OtherException"
    /\ geo.coordinates = Deg1234
    /\ geo.location_text = "12.3400, 56.7800"

\* A field of the structured address is present when it has a value that is
\* not empty.
Present(field) == field # None /\ field # ""

Structured == Resolved /\ geo.outcome.kind = "Location" /\ geo.outcome.has_address

\* C13: on a successful lookup with a structured address the label is the
\* city if present, else the town if present, else the village if present,
\* else the first comma-delimited segment of the formatted address; no
\* exception is raised.
C13_LabelPreference ==
    Structured =>
        /\ ~geo.raised
        /\ Present(geo.outcome.city) => geo.location_text = geo.outcome.city
        /\ (~Present(geo.outcome.city) /\ Present(geo.outcome.town))
             => geo.location_text = geo.outcome.town
        /\ (~Present(geo.outcome.city) /\ ~Present(geo.outcome.town)
               /\ Present(geo.outcome.village))
             => geo.location_text = geo.outcome.village
        /\ (~Present(geo.outcome.city) /\ ~Present(geo.outcome.town)
               /\ ~Present(geo.outcome.village))
             => geo.location_text = geo.outcome.address[1]

\* An address with a city, a town and a village: the label is the city.
C13_Witness ==
    /\ Structured
    /\ geo.outcome.city = "Pittsburgh"
    /\ geo.outcome.town = "Smalltown"
    /\ geo.outcome.village = "Hamlet"
    /\ geo.location_text = "Pittsburgh"

---------------------------------------------------------------------------
(* Properties of _get_gps_coordinates, checked under SpecGps *)

GpsRead == gp.state = "read" /\ gp.coordinates # <<>>

GpsTags == gp.exif.gps[1]

ArcSeconds(value) == (3600 * value[1]) + (60 * value[2]) + value[3]

\* C11: each coordinate is deg + min/60 + sec/3600, the latitude is negative
\* exactly when its reference is South, the longitude exactly when its
\* reference is West; with any other reference, an absent one included, the
\* coordinate is positive.
C11_SignRule ==
    GpsRead =>
        /\ gp.coordinates[1].arcsec = ArcSeconds(GpsTags.lat)
        /\ gp.coordinates[2].arcsec = ArcSeconds(GpsTags.lon)
        /\ gp.coordinates[1].neg <=> GpsTags.lat_ref = "S"
        /\ gp.coordinates[2].neg <=> GpsTags.lon_ref = "W"

\* C11, on the four hemisphere letters only: the sign rule above holds when
\* the latitude reference is N or S and the longitude reference is E or W.
C11_SignRuleLetters ==
    (GpsRead /\ GpsTags.lat_ref \in {"N", "S"} /\ GpsTags.lon_ref \in {"E", "W"})
        => C11_SignRule

\* 40 deg 26' 46" N, 79 deg 56' 55" W gives 40.4461, -79.9486.
C11_Example ==
    /\ GpsRead
    /\ GpsTags = GpsInfo(<<40, 26, 46>>, "N", <<79, 56, 55>>, "W")
    /\ CoordinateString(gp.coordinates) = "40.4461, -79.9486"

---------------------------------------------------------------------------
(* Properties of image_resize_and_add_caption, checked under SpecCaption *)

Done == cap.state = "done"

\* The image was captioned, nothing failed and the output is within budget.
Smooth == cap.caption /\ cap.im.fails = "none" /\ cap.im.enc_size <= CaptionBudget

\* The metadata lacks a coordinate: there is none, reading it raises, or
\* GPSLatitude or GPSLongitude is absent.
LacksTriple ==
    \/ cap.im.exif.read # "tags"
    \/ cap.im.exif.gps = <<>>
    \/ cap.im.exif.gps[1].lat = <<>>
    \/ cap.im.exif.gps[1].lon = <<>>

\* C12: when the latitude or the longitude triple is absent from the
\* metadata (or there is no metadata, or reading it fails), the coordinates
\* are None, the geocoding collaborator is not invoked, and the image, if
\* nothing else fails, is returned with a caption of the timestamp line only.
C12_NoCoordinatesNoLookup ==
    (Done /\ LacksTriple) =>
        /\ cap.result.coordinates = <<>>
        /\ cap.result.geocoder_calls = 0
        /\ ~Took(cap.result.steps, "geocode")
        /\ Smooth => /\ cap.result.ret = "x.jpg"
                     /\ Took(cap.result.steps, "gps")
                     /\ Len(cap.result.text_lines) = 1

\* A latitude without a longitude, a collaborator that would time out: the
\* image is returned with the timestamp line only.
C12_Witness ==
    /\ Done /\ Smooth
    /\ cap.im.exif.read = "tags"
    /\ cap.im.exif.gps = <<GpsInfo(<<40, 26, 46>>, "N", <<>>, None)>>
    /\ cap.im.geocoder = GeoRaises("GeocoderTimedOut")
    /\ cap.result.ret = "x.jpg"
    /\ cap.result.text_lines = <<"2021-06-01 10:30">>

\* The capture time field is there and reads 2021:06:01 10:30:00, the one
\* sample that strptime accepts.
ValidOriginal ==
    /\ cap.im.exif.read = "tags"
    /\ cap.im.exif.date = <<DateString(":", 2021, 6, 1, 10, 30, 0)>>

\* The first line of the caption is this instant in the configured format.
FirstLine(iso, day_first) ==
    cap.result.text_lines[1] =
        IF cap.date_format = "%Y-%m-%d %H:%M" THEN iso ELSE day_first

\* C14: the caption timestamp is the embedded capture time when the field is
\* present and parses with "%Y:%m:%d %H:%M:%S"; with no metadata, no field,
\* an unparseable field or a metadata read that raises it is the file's
\* last-modified time, and the image is captioned and returned all the same.
C14_TimestampSource ==
    /\ (Done /\ cap.result.text_lines # <<>>) =>
         IF ValidOriginal
         THEN /\ cap.result.date_source = "exif"
              /\ FirstLine("2021-06-01 10:30", "01/06/2021")
         ELSE /\ cap.result.date_source = "mtime"
              /\ FirstLine("2020-01-02 03:04", "02/01/2020")
    /\ (Done /\ Smooth) => cap.result.ret = "x.jpg" /\ cap.result.text_lines # <<>>

\* A capture time written with dashes: the caption shows the last-modified
\* time and the image is returned.
C14_Witness ==
    /\ Done /\ Smooth
    /\ cap.date_format = "%Y-%m-%d %H:%M"
    /\ cap.im.exif.read = "tags"
    /\ cap.im.exif.date = <<DateString("-", 2021, 6, 1, 10, 30, 0)>>
    /\ cap.im.mtime = Instant(2020, 1, 2, 3, 4, 5)
    /\ cap.result.date_source = "mtime"
    /\ cap.result.text_lines[1] = "2020-01-02 03:04"
    /\ cap.result.ret = "x.jpg"

\* The place label the samples resolve to: none without both triples or
\* without a location, the coordinates of 40 deg 26' 46" N 79 deg 56' 55" W
\* on a timeout, the city, or the empty first segment of an empty address.
ExpectedLabel ==
    IF LacksTriple \/ cap.im.geocoder = GeoNoLocation THEN None
    ELSE IF cap.im.geocoder = GeoRaises("GeocoderTimedOut") THEN "40.4461, -79.9486"
    ELSE IF cap.im.geocoder.city = "Pittsburgh" THEN "Pittsburgh"
    ELSE ""

\* C16: the caption of a captioned image has one or two lines; the first is
\* the formatted timestamp; there is a second one exactly when a place label
\* (a non-empty one) was resolved, and it is that label; with no GPS tags and
\* a valid capture time the caption is the timestamp line alone.
C16_CaptionLines ==
    /\ (Done /\ cap.result.text_lines # <<>>) =>
         /\ Len(cap.result.text_lines) \in {1, 2}
         /\ IF ValidOriginal THEN FirstLine("2021-06-01 10:30", "01/06/2021")
            ELSE FirstLine("2020-01-02 03:04", "02/01/2020")
         /\ Len(cap.result.text_lines) = 2 <=> ExpectedLabel \notin {None, ""}
         /\ Len(cap.result.text_lines) = 2 => cap.result.text_lines[2] = ExpectedLabel
    /\ (Done /\ Smooth /\ ValidOriginal /\ cap.im.exif.gps = <<>>) =>
         Len(cap.result.text_lines) = 1

\* A valid capture time and coordinates that resolve to a city: two lines.
C16_Witness ==
    /\ Done /\ Smooth /\ ValidOriginal
    /\ cap.date_format = "%Y-%m-%d %H:%M"
    /\ cap.im.exif.gps = <<GpsInfo(<<40, 26, 46>>, "N", <<79, 56, 55>>, "W")>>
    /\ cap.im.geocoder.kind = "Location"
    /\ cap.result.text_lines = <<"2021-06-01 10:30", "Pittsburgh">>
    /\ cap.result.ret = "x.jpg"

CaptionSteps == {"sample", "font", "date", "gps", "geocode", "draw"}

\* C17: with captions disabled, processing takes no caption step: no
\* background sampling, no font, no timestamp or GPS metadata read, no call
\* of the geocoding collaborator, no drawing; after the resize and the RGB
\* conversion comes the save, then the size check.
C17_NoCaptionSteps ==
    (Done /\ ~cap.caption) =>
        /\ \A st \in CaptionSteps : ~Took(cap.result.steps, st)
        /\ cap.result.geocoder_calls = 0
        /\ cap.result.text_lines = <<>>
        /\ cap.result.colouring = <<>>
        /\ cap.result.date_source = None
        /\ cap.im.fails \in {"none", "sample", "font", "date", "draw"} =>
             cap.result.steps =
                 <<"open", "resize", "convert", "save", "getsize">>
                 \o (IF cap.im.enc_size > CaptionBudget THEN <<"remove">> ELSE <<>>)
        /\ Took(cap.result.steps, "save") =>
             SubSeq(cap.result.steps, 1, 4) = <<"open", "resize", "convert", "save">>

\* An image with a capture time and coordinates, a collaborator that would
\* time out, captions disabled: five steps, and the image is returned.
C17_Witness ==
    /\ Done /\ ~cap.caption
    /\ ValidOriginal /\ ~LacksTriple
    /\ cap.im.geocoder = GeoRaises("GeocoderTimedOut")
    /\ cap.im.fails = "none"
    /\ cap.result.steps = <<"open", "resize", "convert", "save", "getsize">>
    /\ cap.result.ret = "x.jpg"

---------------------------------------------------------------------------
(* Properties of the caption colours, checked under SpecColour *)

Chosen == col.state = "chosen"

\* L > 0.5 for L = (0.299 * R + 0.587 * G + 0.114 * B) / 255 as the doubles
\* give it: the colours of exact luminance above one half, and (218, 58,
\* 248), of exact luminance one half, for which L is 0.5000000000000001.
Light(c) ==
    \/ 2 * ((299 * c[1]) + (587 * c[2]) + (114 * c[3])) > 255 * 1000
    \/ c = <<218, 58, 248>>

\* C15: for every sampled average colour (R, G, B) of components 0..255, if
\* L > 0.5 the text is black and the outline white, otherwise the text is
\* white and the outline black; the outline never has the colour of the text.
C15_ContrastRule ==
    Chosen => \A p \in CaptionPositions :
        LET c == col.run[p]
        IN  /\ \A k \in 1..3 : c.avg_color[k] \in 0..255
            /\ Light(c.avg_color)
                 => c.text_color = <<0, 0, 0>> /\ c.outline_color = <<255, 255, 255>>
            /\ ~Light(c.avg_color)
                 => c.text_color = <<255, 255, 255>> /\ c.outline_color = <<0, 0, 0>>
            /\ c.outline_color # c.text_color

\* A background of luminance exactly 0.5, (1, 173, 225): white text, black
\* outline.
C15_Witness ==
    /\ Chosen
    /\ col.run["bottom"].avg_color = <<1, 173, 225>>
    /\ col.run["bottom"].text_color = <<255, 255, 255>>
    /\ col.run["bottom"].outline_color = <<0, 0, 0>>

\* C18: two runs on the same image that differ only in caption_position
\* sample the same box, the bottom tenth of the resized height over the whole
\* width, and choose the same text and outline colours.
C18_PositionIndependent ==
    Chosen =>
        /\ \A p \in CaptionPositions :
             col.run[p].box = [left |-> 0, right |-> col.new_width,
                               upper |-> col.new_height - (col.new_height \div 10),
                               lower |-> col.new_height]
        /\ col.run["top"].text_color = col.run["bottom"].text_color
        /\ col.run["top"].outline_color = col.run["bottom"].outline_color

\* A white upper half over a black lower half, 25 rows high: both runs sample
\* rows 23 and 24 and write in white with a black outline.
C18_Witness ==
    /\ Chosen
    /\ col.new_height = 25
    /\ col.pixels.top = <<255, 255, 255>> /\ col.pixels.bottom = <<0, 0, 0>>
    /\ col.run["top"].box.upper = 23 /\ col.run["top"].box.lower = 25
    /\ col.run["top"].text_color = <<255, 255, 255>>
    /\ col.run["bottom"].text_color = <<255, 255, 255>>
    /\ col.run["top"].outline_color = <<0, 0, 0>>

---------------------------------------------------------------------------
(* Properties of the directory walk of get_image_files, checked under SpecWalk *)

Walked == pc # "walk" /\ directory.exists

\* The names of the model that end, in any case, in one of .jpg, .jpeg,
\* .png, .gif, .bmp.
ImageNames == {"x.jpg", "y.png", "B.JPG", "c.Jpeg", "d.gif", "e.bmp", "g.PNG"}

\* The directory and the directories above it, up to the photos directory.
UpFrom(d) ==
    CASE d = "." -> {"."}
      [] d = "a" -> {".", "a"}
      [] d = "a/s" -> {".", "a", "a/s"}
      [] d = "a/s/t" -> {".", "a", "a/s", "a/s/t"}
      [] d = "b" -> {".", "b"}
      [] d = "c" -> {".", "c"}

HoldsMarker(d) ==
    \E k \in 1..Len(directory.tree[d]) : directory.tree[d][k] = ".nonixplay"

\* C19: no candidate lies in a directory that holds a .nonixplay marker or
\* below one, and the name of every candidate ends, whatever the case of its
\* letters, in .jpg, .jpeg, .png, .gif or .bmp.
C19_MarkedAndOthersSkipped ==
    Walked => \A k \in 1..Len(image_files) :
        /\ \A d \in UpFrom(image_files[k].dir) : ~HoldsMarker(d)
        /\ image_files[k].name \in ImageNames

\* Images in a, a marker and images in a/s, images in a/s/t, one in b: the
\* candidates are the image of a and the one of b.
C19_Witness ==
    /\ Walked
    /\ directory.tree["."] = <<>>
    /\ directory.tree["a"] = <<"x.jpg", "notes.txt">>
    /\ directory.tree["a/s"] = <<"B.JPG", ".nonixplay", "y.png">>
    /\ directory.tree["a/s/t"] = <<"c.Jpeg", "d.gif", "e.bmp", "f.jpg.bak">>
    /\ directory.tree["b"] = <<"jpg", "g.PNG">>
    /\ image_files = <<Path("a", "x.jpg"), Path("b", "g.PNG")>>

---------------------------------------------------------------------------
(* Properties of the size enforcement of get_image_files, checked under Spec *)

Saves(e) == Cardinality({k \in 1..Len(e.steps) : e.steps[k] = "save"})

\* The image was saved and measured, and its encoding exceeds the budget.
OverBudget(e) == e.step = "none" /\ e.enc_size > Budget

\* C20: in one run the selected images are processed one by one, each once,
\* and each is saved at most once; an image whose encoding exceeds the budget
\* is saved once, its output file is removed, and None is returned for it.
C20_SingleAttempt ==
    /\ Len(log) <= Len(selected_images)
    /\ \A j \in Indices(log) :
         /\ log[j].src = selected_images[j]
         /\ \A k \in Indices(log) : j # k => log[j].src # log[k].src
         /\ Saves(log[j]) <= 1
         /\ OverBudget(log[j]) =>
              /\ Saves(log[j]) = 1
              /\ log[j].steps[Len(log[j].steps)] = "remove"
              /\ log[j].ret = None
              /\ j = Len(log) => ~Exists(temp_files, Basename(log[j].src))

\* Two images processed: the first within the budget and kept, the second one
\* byte over it: saved once, removed, not returned.
C20_Witness ==
    /\ Len(log) = 2
    /\ log[1].ret # None
    /\ OverBudget(log[2]) /\ log[2].enc_size = Budget + 1
    /\ Saves(log[2]) = 1
    /\ log[2].ret = None
    /\ ~Exists(temp_files, Basename(log[2].src))
    /\ Exists(temp_files, Basename(log[1].src))
    /\ final_images = <<log[1].ret>>

\* The sources of the accepted images, in the order of the returned list.
AcceptedSources ==
    LET kept == SelectSeq(log, Accepted)
    IN  [k \in 1..Len(kept) |-> kept[k].src]

\* The returned path names a complete file of the temporary directory that
\* holds the encoding, within the budget, of the source it was made from.
HoldsOwnOutput(k) ==
    \E f \in temp_files :
        /\ f.name = final_images[k]
        /\ f.complete
        /\ f.size <= Budget
        /\ f.src = AcceptedSources[k]

\* C22: when get_image_files returns, the returned paths are pairwise
\* distinct and each names a file of the temporary directory that holds the
\* within-budget encoding of its own source; a later image does not
\* overwrite or delete the output of an earlier accepted one, also when two
\* sources in different directories share a file name.
C22_OutputsKept ==
    pc = "returned" =>
        /\ \A j, k \in Indices(final_images) : j # k => final_images[j] # final_images[k]
        /\ \A k \in Indices(final_images) : HoldsOwnOutput(k)

\* C22, for selected sources with pairwise distinct file names: the returned
\* paths are distinct and each holds the output of its own source.
C22_OutputsKeptDistinctNames ==
    (\A j, k \in Indices(selected_images) :
        j # k => Basename(selected_images[j]) # Basename(selected_images[k]))
        => C22_OutputsKept

\* C22, two sources that share a file name, the first accepted: the returned
\* path of the first no longer names its output when get_image_files returns.
C22_CollisionLosesOutput ==
    (/\ pc = "returned"
     /\ Len(log) = 2
     /\ Basename(log[1].src) = Basename(log[2].src)
     /\ Accepted(log[1])
     /\ log[2].step \in {"none", "save", "getsize"})
        => ~HoldsOwnOutput(1)

---------------------------------------------------------------------------
(* Properties of the font resolution, checked under SpecFont *)

\* A call that made a caption, and so needed a font.
FontDone == fnt.state = "done" /\ fnt.caption

\* The configured font file exists.
FontFileExists == Truthy(fnt.font_path) /\ fnt.font_path \in fnt.exists

\* The font of the first strategy that succeeds, in the order configured
\* font file (when it exists), named platform default font, built-in font.
FirstSuccess ==
    IF FontFileExists /\ fnt.font_path \in fnt.loadable
    THEN TruetypeFont(fnt.font_path, fnt.font_size)
    ELSE IF DefaultFontName \in fnt.loadable
    THEN TruetypeFont(DefaultFontName, fnt.font_size)
    ELSE BuiltinFont

\* C21: the font of a caption is the one of the first strategy that
\* succeeds, in the order configured font file (when it exists), named
\* platform default font, built-in font; a font is always found, and a
\* configured font file that exists but cannot be loaded does not fail the
\* image.
C21_FontFallThrough ==
    FontDone =>
        /\ fnt.font = <<FirstSuccess>>
        /\ fnt.ret # None

\* C21, when the configured font file is missing or can be loaded: the font
\* is the one of the first strategy that succeeds and the image is returned.
C21_FontOrderLoadable ==
    (FontDone /\ (FontFileExists => fnt.font_path \in fnt.loadable))
        => C21_FontFallThrough

\* C21, a configured font file that exists and cannot be loaded: no later
\* strategy is tried, no font is found and None is returned for the image.
C21_UnloadableFails ==
    (FontDone /\ FontFileExists /\ fnt.font_path \notin fnt.loadable)
        => fnt.font = <<>> /\ fnt.ret = None

---------------------------------------------------------------------------
(* Properties of main, checked under SpecMain *)

\* The k-th call of main was a call of fn.
IsCall(k, fn) == mn.calls[k].fn = fn

\* fn was called and gave this result before the k-th call.
GaveBefore(k, fn, result) ==
    \E j \in 1..(k - 1) : mn.calls[j] = [fn |-> fn, result |-> result]

\* fn was called and gave this result.
Gave(fn, result) == GaveBefore(Len(mn.calls) + 1, fn, result)

\* fn was called.
Called(fn) == \E k \in Indices(mn.calls) : IsCall(k, fn)

\* main has been left.
Exited == mn.pos = "exited"

\* C23: delete_my_uploads, delete_all_from_playlist and upload_photos are
\* called only after login_to_nixplay returned True; delete_all_from_playlist
\* and upload_photos only after find_playlist returned True; and once the
\* playlist was found, a delete_my_uploads or delete_all_from_playlist that
\* returned False does not keep upload_photos from being called.
C23_RemoteActionsGuarded ==
    /\ \A k \in Indices(mn.calls) :
         /\ (IsCall(k, "delete_my_uploads") \/ IsCall(k, "delete_all_from_playlist")
                \/ IsCall(k, "upload_photos"))
              => GaveBefore(k, "login_to_nixplay", "True")
         /\ (IsCall(k, "delete_all_from_playlist") \/ IsCall(k, "upload_photos"))
              => GaveBefore(k, "find_playlist", "True")
    /\ (Exited /\ Gave("delete_all_from_playlist", "False")) => Called("upload_photos")
    /\ (Exited /\ Gave("delete_my_uploads", "False") /\ Gave("find_playlist", "True")
          /\ ~Gave("delete_all_from_playlist", "raises"))
         => Called("upload_photos")

\* Both deletions failed and the photos were uploaded all the same.
C23_Witness ==
    /\ Exited
    /\ Gave("login_to_nixplay", "True")
    /\ Gave("delete_my_uploads", "False")
    /\ Gave("find_playlist", "True")
    /\ Gave("delete_all_from_playlist", "False")
    /\ Gave("upload_photos", "True")
    /\ mn.leave = "return None"

\* The calls of driver.quit.
Quits == Cardinality({k \in Indices(mn.calls) : IsCall(k, "driver.quit")})

\* C24: once setup_webdriver returned a driver, driver.quit is called exactly
\* once on every path out of main: login failure, playlist not found, upload
\* failure, an exception in any step, normal completion.
C24_QuitExactlyOnce ==
    /\ Quits <= 1
    /\ (Exited /\ mn.driver) => Quits = 1

\* C24, when the save_debug_snapshot of the finally clause raises nothing:
\* driver.quit is called exactly once on every path out of main.
C24_QuitOnceAfterSnapshot ==
    (\A k \in Indices(mn.calls) :
        (IsCall(k, "save_debug_snapshot") /\ mn.calls[k].result = "raises")
           => k < Len(mn.calls) /\ IsCall(k + 1, "save_debug_snapshot"))
        => C24_QuitExactlyOnce

\* C24, the save_debug_snapshot of the finally clause raising: main is left
\* with that exception and driver.quit was not called.
C24_SnapshotRaisedNoQuit ==
    (/\ Exited /\ mn.driver
     /\ mn.calls[Len(mn.calls)] = [fn |-> "save_debug_snapshot", result |-> "raises"])
        => Quits = 0 /\ mn.leave = "raise"

---------------------------------------------------------------------------
(* Properties of upload_photos, checked under SpecUpload *)

RECURSIVE Flatten(_)
\* The batches of these calls, one after the other.
Flatten(calls) ==
    IF calls = <<>> THEN <<>>
    ELSE Flatten(SubSeq(calls, 1, Len(calls) - 1)) \o calls[Len(calls)].batch

RECURSIVE SucceededSize(_)
\* The total size of the batches of these calls that returned True.
SucceededSize(calls) ==
    IF calls = <<>> THEN 0
    ELSE SucceededSize(SubSeq(calls, 1, Len(calls) - 1))
         + (IF calls[Len(calls)].result = "True" THEN Len(calls[Len(calls)].batch) ELSE 0)

BatchCount == ((Len(up.selected_images) - 1) \div up.batch_size) + 1

\* Every call so far was made with a batch of 1 to batch_size images, the
\* number of the batch, and as batch_end_count the size of the earlier
\* batches that returned True plus the size of this one; the batches are
\* consecutive pieces of the images, in order.
CallsInOrder ==
    /\ Len(up.calls) <= BatchCount
    /\ Flatten(up.calls) = SubSeq(up.selected_images, 1, Len(Flatten(up.calls)))
    /\ \A k \in Indices(up.calls) :
         /\ Len(up.calls[k].batch) \in 1..up.batch_size
         /\ up.calls[k].batch_number = k
         /\ up.calls[k].batch_count = BatchCount
         /\ up.calls[k].batch_end_count =
              SucceededSize(SubSeq(up.calls, 1, k - 1)) + Len(up.calls[k].batch)

UploadReturned == up.state = "returned"

\* Every image is in a batch that was passed to upload_batch.
AllBatchesCalled ==
    /\ Len(up.calls) = BatchCount
    /\ Flatten(up.calls) = up.selected_images

\* C26 as stated: when upload_photos returns, upload_batch has been called
\* once per batch, in order, with batch_number 1..batch_count, the batches
\* being consecutive pieces of at most batch_size images that hold every
\* image once, and batch_end_count the size of the earlier successful
\* batches plus the size of the current one.
C26_AllBatchesUploaded ==
    /\ CallsInOrder
    /\ UploadReturned => AllBatchesCalled

\* C26, amended: the calls of upload_batch are made batch by batch, in order
\* and without a gap, with the arguments above; every batch has been called
\* when upload_photos returns True, whatever the calls returned; a call that
\* raises is the last one, upload_photos returns False, or raises when the
\* snapshot of its handler raises, and the batches after it are not called.
C26_BatchesInOrder ==
    /\ CallsInOrder
    /\ \A k \in Indices(up.calls) :
         up.calls[k].result = "raises" =>
            /\ k = Len(up.calls)
            /\ \/ UploadReturned /\ up.ret = "False"
               \/ up.state = "raised" /\ up.ret = "raises"
    /\ up.state = "raised" =>
         /\ up.calls # <<>>
         /\ up.calls[Len(up.calls)].result = "raises"
    /\ UploadReturned =>
         /\ up.ret = "True" <=> \A k \in Indices(up.calls) : up.calls[k].result # "raises"
         /\ up.ret = "True" => AllBatchesCalled

\* Five images in batches of two: the first batch fails, the second and the
\* last, of one image, succeed; the end counts are 2, 2 and 3.
C26_Witness ==
    /\ UploadReturned /\ up.ret = "True"
    /\ up.selected_images = <<1, 2, 3, 4, 5>>
    /\ up.batch_size = 2
    /\ Len(up.calls) = 3
    /\ up.calls[1] = [batch |-> <<1, 2>>, batch_number |-> 1, batch_count |-> 3,
                      batch_end_count |-> 2, result |-> "False"]
    /\ up.calls[2] = [batch |-> <<3, 4>>, batch_number |-> 2, batch_count |-> 3,
                      batch_end_count |-> 2, result |-> "True"]
    /\ up.calls[3] = [batch |-> <<5>>, batch_number |-> 3, batch_count |-> 3,
                      batch_end_count |-> 3, result |-> "True"]

---------------------------------------------------------------------------
(* Properties of upload_batch, checked under SpecBatch *)

Monitoring == ub.state = "monitoring"

LoopLeft == ub.state = "left"

\* Inside the loop no check of the elapsed time has found it above
\* max_upload_time, the last progress taken down is below the target, and
\* nothing has been raised out of the loop.
StillMonitoring ==
    /\ ~ub.past_limit
    /\ ub.checked <= ub.max_upload_time
    /\ ub.last_progress < ub.batch_end_count
    /\ ub.exit = "none" /\ ~ub.raised

\* The loop was left for one of the four causes: the elapsed time found
\* above max_upload_time at the check (and only then may the exit be an
\* exception); or, the check having passed, the progress on the target, the
\* progress text gone, or no change of the progress for more than
\* stall_timeout seconds. The whole seconds counted are a lower bound of
\* the elapsed time, so a time above a limit shows as a count of at least
\* the limit.
LeftForCause ==
    \/ ub.exit = "max_time" /\ ub.past_limit /\ ub.checked >= ub.max_upload_time
    \/ /\ ub.exit \in {"target", "disappeared", "stalled"}
       /\ ~ub.past_limit
       /\ ub.checked <= ub.max_upload_time
       /\ ~ub.raised
       /\ ub.exit = "target" => ub.last_progress >= ub.batch_end_count
       /\ ub.exit = "stalled" =>
            /\ ub.now - ub.last_progress_change_time >= ub.stall_timeout
            /\ ub.last_progress < ub.batch_end_count

\* The two limits are the ones of lines 871-872.
LimitsAsComputed ==
    /\ ub.stall_timeout = (IF ub.batch_len < 200 THEN ub.batch_len ELSE 200)
    /\ ub.max_upload_time =
         (IF 2 * ub.batch_len * ub.batch_number > 300
          THEN 2 * ub.batch_len * ub.batch_number ELSE 300)

LoopBounded ==
    /\ LimitsAsComputed
    /\ Monitoring => StillMonitoring
    /\ LoopLeft => LeftForCause

\* C25: the progress-monitoring loop of upload_batch is left, whatever the
\* page shows and whatever the reads raise: at the latest at the first
\* check that finds the elapsed time above max_upload_time =
\* max(300, 2*len(batch)*batch_number), and before that only when the
\* reported progress reaches batch_end_count, the progress text disappears,
\* or the progress has not changed for more than stall_timeout =
\* min(200, len(batch)) seconds.
C25_LoopTerminates == [](LoopBounded) /\ <>(LoopLeft)

\* Batch 151 of one image, max_upload_time 302: every look at the page
\* raised or showed no count that could be taken down, the stall snapshot
\* failed each time, and the loop was left at the first check after 302 s.
C25_Witness ==
    /\ LoopLeft /\ ub.exit = "max_time"
    /\ ub.batch_number = 151 /\ ub.max_upload_time = 302
    /\ ub.checked > 302
    /\ ub.last_progress = 0 /\ ub.last_progress_change_time = 0

====
